---- MODULE Spec2Model ----
(***************************************************************************)
(* TrustGraph: the reputation / voting ledger of the Anonymous Campus      *)
(* Rumor System (packages/blockchain/contracts/TrustGraph.sol).            *)
(*                                                                         *)
(* Every external function of the contract is one action.  A call that     *)
(* reverts leaves the contract storage as it was (EVM revert semantics);   *)
(* the model records the call and its revert reason in `call`.             *)
(***************************************************************************)
EXTENDS Integers, Naturals, Sequences, FiniteSets, TLC

VARIABLES
    trustScore,       \* mapping(address => uint8)
    inviter,          \* mapping(address => address), 0 is address(0)
    isRegistered,     \* mapping(address => bool)
    userCommitment,   \* mapping(address => bytes32), 0 is bytes32(0)
    bootstrapUsed,    \* uint8
    owner,            \* address
    currentEpoch,     \* uint256
    rumors,           \* mapping(bytes32 => Rumor)
    rumorHashes,      \* bytes32[]
    rumorEpochData,   \* mapping(bytes32 => mapping(uint256 => RumorEpochData))
    nullifierUsed,    \* mapping(bytes32 => mapping(uint256 => mapping(bytes32 => bool)))
    hasVotedInEpoch,  \* mapping(bytes32 => mapping(uint256 => mapping(address => bool)))
    voteChoice,       \* VoteReceipt "side chosen", per (rumor, epoch, address)
    resolution,       \* Resolution per (rumor, epoch): resolved, consensus
    hasClaimed,       \* ClaimRecord per (rumor, epoch, address)
    call,             \* the last external call: function and revert reason ("none": it returned)
    scoreIn,          \* calculateVoteWeight in isolation: the uint8 score read
    weightOut,        \* a view called in isolation: the value returned (-1 before the call)
    blockTimestamp,   \* block.timestamp of the block being mined (the contract never reads it)
    epochStartTime,   \* history: block.timestamp of the last successful advanceEpoch,
                      \* or of the deployment (not contract storage)
    voteCap,          \* model bound: votes accepted per (rumor, epoch) before voting is
                      \* cut off (not contract storage, never changes)
    sqrtCall,         \* _sqrt run step by step: position pc, argument x, locals y and z
    monitor           \* the client's connection monitor (lib/gun): connectionState, the
                      \* state each listener was handed last, timers and puts in flight

storage == <<trustScore, inviter, isRegistered, userCommitment, bootstrapUsed, owner,
             currentEpoch, rumors, rumorHashes, rumorEpochData, nullifierUsed,
             hasVotedInEpoch, voteChoice, resolution, hasClaimed>>

identityVars == <<trustScore, inviter, isRegistered, userCommitment>>
rumorVars == <<rumors, rumorHashes>>
voteVars == <<rumorEpochData, nullifierUsed, hasVotedInEpoch, voteChoice>>
engineVars == <<resolution, hasClaimed>>
weightVars == <<scoreIn, weightOut>>
clockVars == <<blockTimestamp, epochStartTime>>

vars == <<trustScore, inviter, isRegistered, userCommitment, bootstrapUsed, owner,
          currentEpoch, rumors, rumorHashes, rumorEpochData, nullifierUsed,
          hasVotedInEpoch, voteChoice, resolution, hasClaimed, call, scoreIn, weightOut,
          blockTimestamp, epochStartTime, voteCap, sqrtCall, monitor>>

(***************************************************************************)
(* uint256 arithmetic.  The scaled square root works on values up to       *)
(* 100 * 10^18, beyond machine integers, so a uint256 is a little-endian   *)
(* sequence of limbs in base LimbBase without leading zero limbs (zero is  *)
(* the empty sequence).  All operators below are exact natural-number      *)
(* arithmetic; Solidity's `/` is floor division.                           *)
(***************************************************************************)
LimbBase == 10000

RECURSIVE BigNorm(_)
BigNorm(a) ==
    IF a = <<>> THEN <<>>
    ELSE IF a[Len(a)] = 0 THEN BigNorm(SubSeq(a, 1, Len(a) - 1))
    ELSE a

RECURSIVE BigFromInt(_)
BigFromInt(n) ==
    IF n = 0 THEN <<>>
    ELSE <<n % LimbBase>> \o BigFromInt(n \div LimbBase)

RECURSIVE BigToInt(_)
BigToInt(a) ==
    IF a = <<>> THEN 0
    ELSE a[1] + LimbBase * BigToInt(Tail(a))

BigLimb(a, i) == IF i <= Len(a) THEN a[i] ELSE 0

BigMaxLen(a, b) == IF Len(a) >= Len(b) THEN Len(a) ELSE Len(b)

RECURSIVE BigAddFrom(_, _, _, _)
BigAddFrom(a, b, i, carry) ==
    IF i > BigMaxLen(a, b)
    THEN (IF carry = 0 THEN <<>> ELSE <<carry>>)
    ELSE LET s == BigLimb(a, i) + BigLimb(b, i) + carry
         IN  <<s % LimbBase>> \o BigAddFrom(a, b, i + 1, s \div LimbBase)

BigAdd(a, b) == BigAddFrom(a, b, 1, 0)

\* a - b for a >= b
RECURSIVE BigSubFrom(_, _, _, _)
BigSubFrom(a, b, i, borrow) ==
    IF i > Len(a) THEN <<>>
    ELSE LET d == a[i] - BigLimb(b, i) - borrow
         IN  IF d < 0
             THEN <<d + LimbBase>> \o BigSubFrom(a, b, i + 1, 1)
             ELSE <<d>> \o BigSubFrom(a, b, i + 1, 0)

BigSub(a, b) == BigNorm(BigSubFrom(a, b, 1, 0))

\* a < b, comparing from the most significant limb
RECURSIVE BigLessFrom(_, _, _)
BigLessFrom(a, b, i) ==
    IF i = 0 THEN FALSE
    ELSE IF a[i] # b[i] THEN a[i] < b[i]
    ELSE BigLessFrom(a, b, i - 1)

BigLess(a, b) ==
    IF Len(a) # Len(b) THEN Len(a) < Len(b)
    ELSE BigLessFrom(a, b, Len(a))

RECURSIVE BigMulLimbFrom(_, _, _, _)
BigMulLimbFrom(a, d, i, carry) ==
    IF i > Len(a)
    THEN (IF carry = 0 THEN <<>> ELSE <<carry>>)
    ELSE LET p == a[i] * d + carry
         IN  <<p % LimbBase>> \o BigMulLimbFrom(a, d, i + 1, p \div LimbBase)

RECURSIVE BigMul(_, _)
BigMul(a, b) ==
    IF a = <<>> \/ b = <<>> THEN <<>>
    ELSE BigNorm(BigAdd(BigMulLimbFrom(a, b[1], 1, 0),
                        <<0>> \o BigMul(a, Tail(b))))

BigMulLimb(a, d) == BigNorm(BigMulLimbFrom(a, d, 1, 0))

\* the largest digit d in lo..hi with z * d <= cur
RECURSIVE BigDigit(_, _, _, _)
BigDigit(cur, z, lo, hi) ==
    IF lo = hi THEN lo
    ELSE LET mid == (lo + hi + 1) \div 2
         IN  IF BigLess(cur, BigMulLimb(z, mid))
             THEN BigDigit(cur, z, lo, mid - 1)
             ELSE BigDigit(cur, z, mid, hi)

\* bounds on floor(cur / z) from the leading limbs, for cur < z * LimbBase
BigDigitLo(cur, z) ==
    (BigLimb(cur, Len(z)) + LimbBase * BigLimb(cur, Len(z) + 1)) \div (z[Len(z)] + 1)

BigDigitHi(cur, z) ==
    LET e == (BigLimb(cur, Len(z)) + LimbBase * BigLimb(cur, Len(z) + 1) + 1) \div z[Len(z)]
    IN  IF e < LimbBase THEN e ELSE LimbBase - 1

\* long division of limbs i..1 of x by z with running remainder rem:
\* <<the i low quotient limbs, the final remainder>>
RECURSIVE BigDivFrom(_, _, _, _)
BigDivFrom(x, z, i, rem) ==
    IF i = 0 THEN <<(<<>>), rem>>
    ELSE LET cur  == BigNorm(<<x[i]>> \o rem)
             d    == BigDigit(cur, z, BigDigitLo(cur, z), BigDigitHi(cur, z))
             rest == BigDivFrom(x, z, i - 1, BigSub(cur, BigMulLimb(z, d)))
         IN  <<rest[1] \o <<d>>, rest[2]>>

\* short division by a one-limb divisor d, remainder r carried as an integer
RECURSIVE BigDivLimbFrom(_, _, _, _)
BigDivLimbFrom(x, d, i, r) ==
    IF i = 0 THEN <<(<<>>), BigFromInt(r)>>
    ELSE LET cur  == r * LimbBase + x[i]
             rest == BigDivLimbFrom(x, d, i - 1, cur % d)
         IN  <<rest[1] \o <<cur \div d>>, rest[2]>>

\* <<floor(x / z), x mod z>> for z > 0
BigDivMod(x, z) ==
    LET r == IF Len(z) = 1 THEN BigDivLimbFrom(x, z[1], Len(x), 0)
             ELSE BigDivFrom(x, z, Len(x), <<>>)
    IN  <<BigNorm(r[1]), r[2]>>

BigDiv(x, z) == BigDivMod(x, z)[1]

(***************************************************************************)
(* Constants of the contract                                               *)
(***************************************************************************)
INITIAL_TRUST == 10
INVITE_STAKE == 5
MAX_TRUST == 100
BOOTSTRAP_SLOTS == 10
\* 1e18 and 1e9
SQRT_SCALE == <<0, 0, 0, 0, 100>>
SQRT_PRECISION == <<0, 0, 10>>

(***************************************************************************)
(* Quadratic weight function                                               *)
(***************************************************************************)
\* the while loop of _sqrt: y = z; z = (x / z + z) / 2 while z < y
RECURSIVE SqrtLoop(_, _, _)
SqrtLoop(x, y, z) ==
    IF BigLess(z, y)
    THEN SqrtLoop(x, z, BigDiv(BigAdd(BigDiv(x, z), z), <<2>>))
    ELSE y

_sqrt(x) ==
    IF x = <<>> THEN <<>>
    ELSE SqrtLoop(x, x, BigDiv(BigAdd(x, <<1>>), <<2>>))

\* _sqrt step by step.  uint256 arithmetic is checked (pragma ^0.8.19): x + 1
\* panics on overflow.
\* 2^(16 * n)
RECURSIVE BigPow65536(_)
BigPow65536(n) == IF n = 0 THEN <<1>> ELSE BigMul(BigPow65536(n - 1), <<5536, 6>>)

\* type(uint256).max = 2^256 - 1
Uint256Max == BigSub(BigPow65536(16), <<1>>)

SqrtIdle == [pc |-> "idle", x |-> <<>>, y |-> <<>>, z |-> <<>>]

\* variant: the mean is rounded up
SqrtNextZ_RoundUp(x, z) == BigDiv(BigAdd(BigAdd(BigDiv(x, z), z), <<1>>), <<2>>)

\* z = (x / z + z) / 2
SqrtNextZ(x, z) == BigDiv(BigAdd(BigDiv(x, z), z), <<2>>)

\* if (x == 0) return 0; uint256 z = (x + 1) / 2; y = x;
sqrtEnter ==
    /\ sqrtCall.pc = "entry"
    /\ sqrtCall' =
          IF sqrtCall.x = <<>> THEN [sqrtCall EXCEPT !.pc = "done", !.y = <<>>]
          ELSE IF sqrtCall.x = Uint256Max THEN [sqrtCall EXCEPT !.pc = "panic"]
          ELSE [sqrtCall EXCEPT !.pc = "loop", !.y = sqrtCall.x,
                                !.z = BigDiv(BigAdd(sqrtCall.x, <<1>>), <<2>>)]
    /\ UNCHANGED <<storage, call, weightVars, clockVars, voteCap, monitor>>

\* while (z < y) { y = z; z = (x / z + z) / 2; }
sqrtIterate ==
    /\ sqrtCall.pc = "loop"
    /\ sqrtCall' =
          IF BigLess(sqrtCall.z, sqrtCall.y)
          THEN [sqrtCall EXCEPT !.y = sqrtCall.z, !.z = SqrtNextZ(sqrtCall.x, sqrtCall.z)]
          ELSE [sqrtCall EXCEPT !.pc = "done"]
    /\ UNCHANGED <<storage, call, weightVars, clockVars, voteCap, monitor>>

\* variant: the scaled root is rounded up instead of down
VoteWeightOfScore_RoundUp(score) ==
    IF score = 0 THEN 0
    ELSE LET scaled     == BigMul(BigFromInt(score), SQRT_SCALE)
             sqrtScaled == _sqrt(scaled)
         IN  BigToInt(BigDiv(BigAdd(sqrtScaled, BigSub(SQRT_PRECISION, <<1>>)),
                             SQRT_PRECISION))

\* variant: the root is divided by 1e10 instead of 1e9
VoteWeightOfScore_CoarsePrecision(score) ==
    IF score = 0 THEN 0
    ELSE LET scaled     == BigMul(BigFromInt(score), SQRT_SCALE)
             sqrtScaled == _sqrt(scaled)
         IN  BigToInt(BigDiv(sqrtScaled, <<0, 0, 100>>))

\* body of calculateVoteWeight for a given trust score
VoteWeightOfScore(score) ==
    IF score = 0 THEN 0
    ELSE LET scaled     == BigMul(BigFromInt(score), SQRT_SCALE)
             sqrtScaled == _sqrt(scaled)
         IN  BigToInt(BigDiv(sqrtScaled, SQRT_PRECISION))

\* memo of VoteWeightOfScore over the reachable uint8 scores
VoteWeightTable == [s \in 0..MAX_TRUST |-> VoteWeightOfScore(s)]

calculateVoteWeight(voter) ==
    IF trustScore[voter] \in DOMAIN VoteWeightTable
    THEN VoteWeightTable[trustScore[voter]]
    ELSE VoteWeightOfScore(trustScore[voter])

(***************************************************************************)
(* Bounds of the model                                                     *)
(***************************************************************************)
NumUsers == 2          \* externally owned accounts that send transactions
NumRegistryUsers == 11 \* accounts of the registry-only specification
MaxEpoch == 1          \* advanceEpoch is cut off at this epoch
NumRumors == 1
MaxVotes == 2          \* votes accepted per (rumor, epoch) before voting is cut off
NumNullifiers == 1
MaxTime == 2           \* block.timestamp is cut off at this value
NumChainUsers == 3     \* accounts of the invitation-chain specification
NumRegistryRumors == 2 \* rumor hashes of the rumor-registry specification
MaxSqrtInput == 64     \* _sqrt step by step: the small arguments 0..MaxSqrtInput
MaxSideVotes == 2      \* votes per side in the tallies read by getRumorTrustScore alone

Deployer == 1
Users == 1..NumUsers
RegistryUsers == 1..NumRegistryUsers
Address == 0..(IF NumUsers > NumRegistryUsers THEN NumUsers ELSE NumRegistryUsers)
Epochs == 0..MaxEpoch
RumorHash == 1..NumRumors
Nullifier == 1..NumNullifiers
Commitment == {0, 1}             \* bytes32 arguments; 0 is bytes32(0)
GenesisCommitment == 2           \* keccak256(deployer, block.timestamp)
SlashAmount == {0, 10}           \* uint8 arguments of slash
Content == {"a"}

(***************************************************************************)
(* The client's connection monitor (packages/client/src/lib/gun).  The     *)
(* browser runs one callback at a time to its end: every timer callback,   *)
(* every put acknowledgement and every exported function called by the     *)
(* page is one action.                                                     *)
(***************************************************************************)
MaxChecks == 3         \* health checks started before the timers are cut off
NumListeners == 1      \* components subscribed through useGunConnection
RelayCount == 7        \* RELAY_PEERS.length with no local relay configured

null == "null"
AckError == "ack.err"                  \* a truthy ack.err
PeerEstimates == {0, 1, RelayCount}    \* Math.min(responsesReceived, RELAY_PEERS.length)
Listeners == 1..NumListeners

\* let connectionState = { status: 'connecting', ... }
InitialConnectionState ==
    [status |-> "connecting", peerCount |-> 0, lastSync |-> null, error |-> null,
     activeRelay |-> null]

\* what a component that was never mounted has been handed
NotMounted == [InitialConnectionState EXCEPT !.status = "unmounted"]

\* the module after its declarations, before startConnectionMonitoring()
ModuleLoaded ==
    [connectionState |-> InitialConnectionState,
     connectionCallbacks |-> {},
     received |-> [l \in Listeners |-> NotMounted],
     connectionCheckInterval |-> FALSE,
     startupTimeout |-> FALSE,
     inFlight |-> {},
     checks |-> 0,
     peerTimers |-> 0]

\* { ...connectionState, ...updates }
Merge(state, updates) ==
    [k \in DOMAIN state |-> IF k \in DOMAIN updates THEN updates[k] ELSE state[k]]

\* updateConnectionState with notifyConnectionListeners, on the monitor m
updateConnectionState(m, updates) ==
    LET new == Merge(m.connectionState, updates)
    IN  [m EXCEPT !.connectionState = new,
                  !.received = [l \in Listeners |->
                                  IF l \in m.connectionCallbacks THEN new ELSE @[l]]]

\* checkConnectionHealth on the monitor m: a put is sent, its callback is in
\* flight, and estimatePeerCount arms its 2 s timer
checkConnectionHealth(m, by) ==
    [m EXCEPT !.inFlight = @ \cup {[id |-> m.checks + 1, by |-> by]},
              !.checks = @ + 1,
              !.peerTimers = @ + 1]

MonitorFrame == UNCHANGED <<storage, call, weightVars, clockVars, voteCap, sqrtCall>>

\* runs once, when the module is loaded in a browser
startConnectionMonitoring ==
    /\ ~monitor.connectionCheckInterval
    /\ monitor' = [updateConnectionState(monitor, [status |-> "connecting"])
                      EXCEPT !.connectionCheckInterval = TRUE, !.startupTimeout = TRUE]
    /\ MonitorFrame

\* setInterval(() => checkConnectionHealth(), 5000)
intervalTick ==
    /\ monitor.connectionCheckInterval
    /\ monitor.checks < MaxChecks
    /\ monitor' = checkConnectionHealth(monitor, "timer")
    /\ MonitorFrame

\* setTimeout(checkConnectionHealth, 1000)
startupTick ==
    /\ monitor.startupTimeout
    /\ monitor.checks < MaxChecks
    /\ monitor' = [checkConnectionHealth(monitor, "timer") EXCEPT !.startupTimeout = FALSE]
    /\ MonitorFrame

\* the callback of a put: gun calls it once per acknowledgement, so the check
\* may stay in flight (last = FALSE)
putAck(check, err, last) ==
    /\ check \in monitor.inFlight
    /\ monitor' =
          LET acked == IF err # null
                       THEN updateConnectionState(monitor, [status |-> "error", error |-> err])
                       ELSE updateConnectionState(monitor,
                               [status |-> "connected", lastSync |-> "Date.now()",
                                error |-> null])
          IN  [acked EXCEPT !.inFlight = IF last THEN @ \ {check} ELSE @]
    /\ MonitorFrame

\* the 2 s timer of estimatePeerCount
peerCountTimeout(estimatedPeers) ==
    /\ monitor.peerTimers > 0
    /\ monitor' = [updateConnectionState(monitor, [peerCount |-> estimatedPeers])
                      EXCEPT !.peerTimers = @ - 1]
    /\ MonitorFrame

\* variant: reconnect resets the status only, as startConnectionMonitoring does
reconnect_StatusOnly ==
    /\ monitor.connectionCheckInterval
    /\ monitor.checks < MaxChecks
    /\ monitor' = checkConnectionHealth(
                      updateConnectionState(monitor, [status |-> "connecting"]),
                      "reconnect")
    /\ MonitorFrame

\* exported; the page can call it once the module is loaded
reconnect ==
    /\ monitor.connectionCheckInterval
    /\ monitor.checks < MaxChecks
    /\ monitor' = checkConnectionHealth(
                      updateConnectionState(monitor, [status |-> "connecting", error |-> null]),
                      "reconnect")
    /\ MonitorFrame

\* useGunConnection mounts: the callback is added and called with the state
subscribeToConnection(l) ==
    /\ monitor.connectionCheckInterval
    /\ l \notin monitor.connectionCallbacks
    /\ monitor' = [monitor EXCEPT !.connectionCallbacks = @ \cup {l},
                                  !.received[l] = monitor.connectionState]
    /\ MonitorFrame

\* the function subscribeToConnection returned: the component unmounts and
\* is handed nothing from here on
unsubscribe(l) ==
    /\ l \in monitor.connectionCallbacks
    /\ monitor' = [monitor EXCEPT !.connectionCallbacks = @ \ {l}]
    /\ MonitorFrame

NoCall == [op |-> "constructor", err |-> "none"]

Called(op, err) == call' = [op |-> op, err |-> err]

EmptyRumor == [content |-> "", createdEpoch |-> 0, creator |-> 0, exists |-> FALSE]
Unresolved == [resolved |-> FALSE, consensus |-> FALSE]
EmptyEpochData == [weightedTrueVotes |-> 0, weightedFalseVotes |-> 0,
                   trueVoteCount |-> 0, falseVoteCount |-> 0]

(***************************************************************************)
(* Registration and invites                                                *)
(***************************************************************************)
\* variant: the inviter back-reference is not stored
RegisterUser_NoInviter(user, _inviter, commitment) ==
    /\ trustScore' = [trustScore EXCEPT ![user] = INITIAL_TRUST]
    /\ inviter' = inviter
    /\ isRegistered' = [isRegistered EXCEPT ![user] = TRUE]
    /\ userCommitment' = [userCommitment EXCEPT ![user] = commitment]

\* variant: the stake is taken from the inviter at registration
RegisterUser_ChargesInviter(user, _inviter, commitment) ==
    /\ trustScore' = IF _inviter # 0 /\ trustScore[_inviter] >= INVITE_STAKE
                     THEN [trustScore EXCEPT ![user] = INITIAL_TRUST,
                                             ![_inviter] = @ - INVITE_STAKE]
                     ELSE [trustScore EXCEPT ![user] = INITIAL_TRUST]
    /\ inviter' = [inviter EXCEPT ![user] = _inviter]
    /\ isRegistered' = [isRegistered EXCEPT ![user] = TRUE]
    /\ userCommitment' = [userCommitment EXCEPT ![user] = commitment]

\* _registerUser: the four stores, as next-state values
RegisterUser(user, _inviter, commitment) ==
    /\ trustScore' = [trustScore EXCEPT ![user] = INITIAL_TRUST]
    /\ inviter' = [inviter EXCEPT ![user] = _inviter]
    /\ isRegistered' = [isRegistered EXCEPT ![user] = TRUE]
    /\ userCommitment' = [userCommitment EXCEPT ![user] = commitment]

\* constructor: storage starts zeroed, the deployer is registered as genesis user
Init ==
    /\ owner = Deployer
    /\ trustScore = [a \in Address |-> IF a = Deployer THEN INITIAL_TRUST ELSE 0]
    /\ inviter = [a \in Address |-> 0]
    /\ isRegistered = [a \in Address |-> a = Deployer]
    /\ userCommitment = [a \in Address |-> IF a = Deployer THEN GenesisCommitment ELSE 0]
    /\ bootstrapUsed = 1
    /\ currentEpoch = 0
    /\ rumors = [h \in RumorHash |-> EmptyRumor]
    /\ rumorHashes = <<>>
    /\ rumorEpochData = [h \in RumorHash |-> [e \in Epochs |-> EmptyEpochData]]
    /\ nullifierUsed = [h \in RumorHash |-> [e \in Epochs |-> [n \in Nullifier |-> FALSE]]]
    /\ hasVotedInEpoch = [h \in RumorHash |-> [e \in Epochs |-> [a \in Address |-> FALSE]]]
    /\ voteChoice = [h \in RumorHash |-> [e \in Epochs |-> [a \in Address |-> FALSE]]]
    /\ resolution = [h \in RumorHash |-> [e \in Epochs |-> Unresolved]]
    /\ hasClaimed = [h \in RumorHash |-> [e \in Epochs |-> [a \in Address |-> FALSE]]]
    /\ call = NoCall
    /\ scoreIn = 0
    /\ weightOut = -1
    /\ blockTimestamp = 0
    /\ epochStartTime = 0
    /\ voteCap = MaxVotes
    /\ sqrtCall = SqrtIdle
    /\ monitor = ModuleLoaded

\* variant: a registered caller is not turned away
bootstrapRegisterRevert_NoRegisteredCheck(sender, commitment) ==
    IF bootstrapUsed >= BOOTSTRAP_SLOTS THEN "BootstrapPeriodEnded"
    ELSE IF commitment = 0 THEN "InvalidCommitment"
    ELSE "none"

\* variant: the slot test is off by one
bootstrapRegisterRevert_OffByOne(sender, commitment) ==
    IF isRegistered[sender] THEN "AlreadyRegistered"
    ELSE IF bootstrapUsed > BOOTSTRAP_SLOTS THEN "BootstrapPeriodEnded"
    ELSE IF commitment = 0 THEN "InvalidCommitment"
    ELSE "none"

bootstrapRegisterRevert(sender, commitment) ==
    IF isRegistered[sender] THEN "AlreadyRegistered"
    ELSE IF bootstrapUsed >= BOOTSTRAP_SLOTS THEN "BootstrapPeriodEnded"
    ELSE IF commitment = 0 THEN "InvalidCommitment"
    ELSE "none"

bootstrapRegister(sender, commitment) ==
    LET err == bootstrapRegisterRevert(sender, commitment)
    IN  /\ Called("bootstrapRegister", err)
        /\ IF err = "none"
           THEN /\ bootstrapUsed' = bootstrapUsed + 1
                /\ RegisterUser(sender, 0, commitment)
           ELSE UNCHANGED <<bootstrapUsed, identityVars>>
        /\ UNCHANGED <<owner, currentEpoch, rumorVars, voteVars, engineVars, weightVars, clockVars, voteCap, sqrtCall, monitor>>

\* variant: the inviter's stake is not checked
inviteUserRevert_NoStakeCheck(sender, invitee, commitment) ==
    IF ~isRegistered[sender] THEN "NotRegistered"
    ELSE IF isRegistered[invitee] THEN "AlreadyRegistered"
    ELSE IF invitee = sender THEN "CannotInviteSelf"
    ELSE IF commitment = 0 THEN "InvalidCommitment"
    ELSE "none"

\* variant: an empty commitment is not turned away
inviteUserRevert_NoCommitmentCheck(sender, invitee, commitment) ==
    IF ~isRegistered[sender] THEN "NotRegistered"
    ELSE IF isRegistered[invitee] THEN "AlreadyRegistered"
    ELSE IF invitee = sender THEN "CannotInviteSelf"
    ELSE IF trustScore[sender] < INVITE_STAKE THEN "InsufficientTrustToInvite"
    ELSE "none"

\* variant: an invitee that is registered already is not turned away
inviteUserRevert_NoInviteeCheck(sender, invitee, commitment) ==
    IF ~isRegistered[sender] THEN "NotRegistered"
    ELSE IF invitee = sender THEN "CannotInviteSelf"
    ELSE IF trustScore[sender] < INVITE_STAKE THEN "InsufficientTrustToInvite"
    ELSE IF commitment = 0 THEN "InvalidCommitment"
    ELSE "none"

inviteUserRevert(sender, invitee, commitment) ==
    IF ~isRegistered[sender] THEN "NotRegistered"
    ELSE IF isRegistered[invitee] THEN "AlreadyRegistered"
    ELSE IF invitee = sender THEN "CannotInviteSelf"
    ELSE IF trustScore[sender] < INVITE_STAKE THEN "InsufficientTrustToInvite"
    ELSE IF commitment = 0 THEN "InvalidCommitment"
    ELSE "none"

inviteUser(sender, invitee, commitment) ==
    LET err == inviteUserRevert(sender, invitee, commitment)
    IN  /\ Called("inviteUser", err)
        /\ IF err = "none"
           THEN RegisterUser(invitee, sender, commitment)
           ELSE UNCHANGED identityVars
        /\ UNCHANGED <<bootstrapUsed, owner, currentEpoch, rumorVars, voteVars,
                       engineVars, weightVars, clockVars, voteCap, sqrtCall, monitor>>

(***************************************************************************)
(* Rumor management                                                        *)
(***************************************************************************)
\* variant: a registered hash is not turned away
registerRumorRevert_NoExistsCheck(sender, rumorHash) ==
    IF ~isRegistered[sender] THEN "NotRegistered"
    ELSE "none"

registerRumorRevert(sender, rumorHash) ==
    IF ~isRegistered[sender] THEN "NotRegistered"
    ELSE IF rumors[rumorHash].exists THEN "RumorAlreadyExists"
    ELSE "none"

\* Rumor.createdAt (block.timestamp) is not modelled
registerRumor(sender, rumorHash, content) ==
    LET err == registerRumorRevert(sender, rumorHash)
    IN  /\ Called("registerRumor", err)
        /\ IF err = "none"
           THEN /\ rumors' = [rumors EXCEPT ![rumorHash] =
                                 [content |-> content, createdEpoch |-> currentEpoch,
                                  creator |-> sender, exists |-> TRUE]]
                /\ rumorHashes' = Append(rumorHashes, rumorHash)
           ELSE UNCHANGED rumorVars
        /\ UNCHANGED <<identityVars, bootstrapUsed, owner, currentEpoch, voteVars,
                       engineVars, weightVars, clockVars, voteCap, sqrtCall, monitor>>

getRumorCount == Len(rumorHashes)

\* index counts from 0; an index out of range reverts (no value)
getRumorHashByIndex(index) == rumorHashes[index + 1]

(***************************************************************************)
(* Voting                                                                  *)
(***************************************************************************)
\* the tally of (rumorHash, current epoch) is cut off at voteCap votes
VotesLeft(rumorHash) ==
    LET data == rumorEpochData[rumorHash][currentEpoch]
    IN  data.trueVoteCount + data.falseVoteCount < voteCap

\* variant: the weight is added and the vote is not counted
AddVote_NoCount(data, isTrue, w) ==
    IF isTrue
    THEN [data EXCEPT !.weightedTrueVotes = @ + w]
    ELSE [data EXCEPT !.weightedFalseVotes = @ + w]

\* variant: the weight goes to both weighted sums
AddVote_BothSums(data, isTrue, w) ==
    IF isTrue
    THEN [data EXCEPT !.weightedTrueVotes = @ + w, !.weightedFalseVotes = @ + w,
                      !.trueVoteCount = @ + 1]
    ELSE [data EXCEPT !.weightedFalseVotes = @ + w, !.weightedTrueVotes = @ + w,
                      !.falseVoteCount = @ + 1]

\* the tally update shared by castVoteWithNullifier and castVote
AddVote(data, isTrue, w) ==
    IF isTrue
    THEN [data EXCEPT !.weightedTrueVotes = @ + w, !.trueVoteCount = @ + 1]
    ELSE [data EXCEPT !.weightedFalseVotes = @ + w, !.falseVoteCount = @ + 1]

\* variant: a used nullifier is not turned away
castVoteWithNullifierRevert_NoNullifierCheck(sender, rumorHash, nullifier) ==
    IF ~isRegistered[sender] THEN "NotRegistered"
    ELSE IF trustScore[sender] = 0 THEN "InsufficientTrustToInvite"
    ELSE IF ~(calculateVoteWeight(sender) > 0) THEN "Zero vote weight"
    ELSE "none"

castVoteWithNullifierRevert(sender, rumorHash, nullifier) ==
    IF ~isRegistered[sender] THEN "NotRegistered"
    ELSE IF trustScore[sender] = 0 THEN "InsufficientTrustToInvite"
    ELSE IF nullifierUsed[rumorHash][currentEpoch][nullifier] THEN "AlreadyVoted"
    ELSE IF ~(calculateVoteWeight(sender) > 0) THEN "Zero vote weight"
    ELSE "none"

\* variant: the has-voted flag is written before the checks and survives a
\* failed call
castVoteWithNullifier_MarksOnFailure(sender, rumorHash, isTrue, nullifier) ==
    LET err   == castVoteWithNullifierRevert(sender, rumorHash, nullifier)
        epoch == currentEpoch
    IN  /\ err = "none" => VotesLeft(rumorHash)
        /\ Called("castVoteWithNullifier", err)
        /\ hasVotedInEpoch' = [hasVotedInEpoch EXCEPT ![rumorHash][epoch][sender] = TRUE]
        /\ IF err = "none"
           THEN /\ nullifierUsed' = [nullifierUsed EXCEPT ![rumorHash][epoch][nullifier] = TRUE]
                /\ voteChoice' = [voteChoice EXCEPT ![rumorHash][epoch][sender] = isTrue]
                /\ rumorEpochData' = [rumorEpochData EXCEPT ![rumorHash][epoch] =
                                         AddVote(@, isTrue, calculateVoteWeight(sender))]
           ELSE UNCHANGED <<rumorEpochData, nullifierUsed, voteChoice>>
        /\ UNCHANGED <<identityVars, bootstrapUsed, owner, currentEpoch, rumorVars,
                       engineVars, weightVars, clockVars, voteCap, sqrtCall, monitor>>

\* the side chosen is kept for the reward engine (see claimReward)
castVoteWithNullifier(sender, rumorHash, isTrue, nullifier) ==
    LET err   == castVoteWithNullifierRevert(sender, rumorHash, nullifier)
        epoch == currentEpoch
    IN  /\ err = "none" => VotesLeft(rumorHash)
        /\ Called("castVoteWithNullifier", err)
        /\ IF err = "none"
           THEN /\ nullifierUsed' = [nullifierUsed EXCEPT ![rumorHash][epoch][nullifier] = TRUE]
                /\ hasVotedInEpoch' = [hasVotedInEpoch EXCEPT ![rumorHash][epoch][sender] = TRUE]
                /\ voteChoice' = [voteChoice EXCEPT ![rumorHash][epoch][sender] = isTrue]
                /\ rumorEpochData' = [rumorEpochData EXCEPT ![rumorHash][epoch] =
                                         AddVote(@, isTrue, calculateVoteWeight(sender))]
           ELSE UNCHANGED voteVars
        /\ UNCHANGED <<identityVars, bootstrapUsed, owner, currentEpoch, rumorVars,
                       engineVars, weightVars, clockVars, voteCap, sqrtCall, monitor>>

\* variant: an account that has voted is not turned away
castVoteRevert_NoReceiptCheck(sender, rumorHash) ==
    IF ~isRegistered[sender] THEN "NotRegistered"
    ELSE IF trustScore[sender] = 0 THEN "InsufficientTrustToInvite"
    ELSE IF ~(calculateVoteWeight(sender) > 0) THEN "Zero vote weight"
    ELSE "none"

castVoteRevert(sender, rumorHash) ==
    IF ~isRegistered[sender] THEN "NotRegistered"
    ELSE IF trustScore[sender] = 0 THEN "InsufficientTrustToInvite"
    ELSE IF hasVotedInEpoch[rumorHash][currentEpoch][sender] THEN "AlreadyVoted"
    ELSE IF ~(calculateVoteWeight(sender) > 0) THEN "Zero vote weight"
    ELSE "none"

\* variant: the vote is keyed by epoch 0 whatever the current epoch
castVote_EpochZero(sender, rumorHash, isTrue) ==
    LET err   == castVoteRevert(sender, rumorHash)
        epoch == 0
    IN  /\ err = "none" => VotesLeft(rumorHash)
        /\ Called("castVote", err)
        /\ IF err = "none"
           THEN /\ hasVotedInEpoch' = [hasVotedInEpoch EXCEPT ![rumorHash][epoch][sender] = TRUE]
                /\ voteChoice' = [voteChoice EXCEPT ![rumorHash][epoch][sender] = isTrue]
                /\ rumorEpochData' = [rumorEpochData EXCEPT ![rumorHash][epoch] =
                                         AddVote(@, isTrue, calculateVoteWeight(sender))]
                /\ UNCHANGED nullifierUsed
           ELSE UNCHANGED voteVars
        /\ UNCHANGED <<identityVars, bootstrapUsed, owner, currentEpoch, rumorVars,
                       engineVars, weightVars, clockVars, voteCap, sqrtCall, monitor>>

castVote(sender, rumorHash, isTrue) ==
    LET err   == castVoteRevert(sender, rumorHash)
        epoch == currentEpoch
    IN  /\ err = "none" => VotesLeft(rumorHash)
        /\ Called("castVote", err)
        /\ IF err = "none"
           THEN /\ hasVotedInEpoch' = [hasVotedInEpoch EXCEPT ![rumorHash][epoch][sender] = TRUE]
                /\ voteChoice' = [voteChoice EXCEPT ![rumorHash][epoch][sender] = isTrue]
                /\ rumorEpochData' = [rumorEpochData EXCEPT ![rumorHash][epoch] =
                                         AddVote(@, isTrue, calculateVoteWeight(sender))]
                /\ UNCHANGED nullifierUsed
           ELSE UNCHANGED voteVars
        /\ UNCHANGED <<identityVars, bootstrapUsed, owner, currentEpoch, rumorVars,
                       engineVars, weightVars, clockVars, voteCap, sqrtCall, monitor>>

(***************************************************************************)
(* Epoch management                                                        *)
(***************************************************************************)
advanceEpochRevert(sender) ==
    IF sender # owner THEN "OnlyOwner" ELSE "none"

\* variant: the advance wipes the tallies of the epoch that ends
advanceEpoch_ClearsTallies(sender) ==
    LET err == advanceEpochRevert(sender)
    IN  /\ err = "none" => currentEpoch < MaxEpoch
        /\ Called("advanceEpoch", err)
        /\ currentEpoch' = IF err = "none" THEN currentEpoch + 1 ELSE currentEpoch
        /\ epochStartTime' = IF err = "none" THEN blockTimestamp ELSE epochStartTime
        /\ rumorEpochData' =
              IF err = "none"
              THEN [h \in RumorHash |-> [rumorEpochData[h] EXCEPT ![currentEpoch] = EmptyEpochData]]
              ELSE rumorEpochData
        /\ UNCHANGED <<identityVars, bootstrapUsed, owner, rumorVars, nullifierUsed,
                       hasVotedInEpoch, voteChoice, engineVars, weightVars, blockTimestamp, voteCap, sqrtCall, monitor>>

\* variant: the advance returns without moving the epoch counter
advanceEpoch_NoIncrement(sender) ==
    LET err == advanceEpochRevert(sender)
    IN  /\ err = "none" => currentEpoch < MaxEpoch
        /\ Called("advanceEpoch", err)
        /\ epochStartTime' = IF err = "none" THEN blockTimestamp ELSE epochStartTime
        /\ UNCHANGED <<identityVars, bootstrapUsed, owner, currentEpoch, rumorVars, voteVars,
                       engineVars, weightVars, blockTimestamp, voteCap, sqrtCall, monitor>>

\* the epoch counter is cut off at MaxEpoch
advanceEpoch(sender) ==
    LET err == advanceEpochRevert(sender)
    IN  /\ err = "none" => currentEpoch < MaxEpoch
        /\ Called("advanceEpoch", err)
        /\ currentEpoch' = IF err = "none" THEN currentEpoch + 1 ELSE currentEpoch
        /\ epochStartTime' = IF err = "none" THEN blockTimestamp ELSE epochStartTime
        /\ UNCHANGED <<identityVars, bootstrapUsed, owner, rumorVars, voteVars,
                       engineVars, weightVars, blockTimestamp, voteCap, sqrtCall, monitor>>

(***************************************************************************)
(* Slashing                                                                *)
(***************************************************************************)
\* variant: the amount is not compared with the score
slashRevert_NoBoundsCheck(sender, user, amount) ==
    IF sender # owner THEN "OnlyOwner"
    ELSE IF ~isRegistered[user] THEN "NotRegistered"
    ELSE "none"

slashRevert(sender, user, amount) ==
    IF sender # owner THEN "OnlyOwner"
    ELSE IF ~isRegistered[user] THEN "NotRegistered"
    ELSE IF amount > trustScore[user] \/ amount > MAX_TRUST THEN "TrustScoreOutOfBounds"
    ELSE "none"

\* variant: the stake is taken in unchecked uint8 arithmetic whatever the
\* inviter's score
PropagateToInviter_Unchecked(ts, user) ==
    LET _inviter == inviter[user]
    IN  IF _inviter # 0
        THEN [ts EXCEPT ![_inviter] = (@ - INVITE_STAKE) % 256]
        ELSE ts

\* variant: the stake loss goes on to the inviter's inviter
PropagateToInviter_Chain(ts, user) ==
    LET _inviter == inviter[user]
        once == IF _inviter # 0 /\ ts[_inviter] >= INVITE_STAKE
                THEN [ts EXCEPT ![_inviter] = @ - INVITE_STAKE]
                ELSE ts
        _grand == IF _inviter # 0 THEN inviter[_inviter] ELSE 0
    IN  IF _grand # 0 /\ once[_grand] >= INVITE_STAKE
        THEN [once EXCEPT ![_grand] = @ - INVITE_STAKE]
        ELSE once

\* the propagation of a stake loss to the inviter of user, on the scores ts
PropagateToInviter(ts, user) ==
    LET _inviter == inviter[user]
    IN  IF _inviter # 0 /\ ts[_inviter] >= INVITE_STAKE
        THEN [ts EXCEPT ![_inviter] = @ - INVITE_STAKE]
        ELSE ts

\* trustScore after the two stores of slash: the user first, then its inviter
SlashedScores(user, amount) ==
    PropagateToInviter([trustScore EXCEPT ![user] = @ - amount], user)

slash(sender, user, amount) ==
    LET err == slashRevert(sender, user, amount)
    IN  /\ Called("slash", err)
        /\ trustScore' = IF err = "none" THEN SlashedScores(user, amount) ELSE trustScore
        /\ UNCHANGED <<inviter, isRegistered, userCommitment, bootstrapUsed, owner,
                       currentEpoch, rumorVars, voteVars, engineVars, weightVars, clockVars, voteCap, sqrtCall, monitor>>

(***************************************************************************)
(* Consensus resolution and rewards.  The client calls resolveRumor and    *)
(* claimReward (packages/client/app/page.tsx), but the contract revision   *)
(* that implements them is not among the sources; they are modelled from   *)
(* section 4.4 and 4.5 of the specification.                               *)
(***************************************************************************)
MIN_VOTES_TO_RESOLVE == 2
REWARD_AMOUNT == 2
PENALTY_AMOUNT == 1

\* variant: an existing resolution is not turned away
resolveRumorRevert_NoResolvedCheck(rumorHash) ==
    LET data == rumorEpochData[rumorHash][currentEpoch]
    IN  IF data.trueVoteCount + data.falseVoteCount < MIN_VOTES_TO_RESOLVE
        THEN "NotEnoughVotes"
        ELSE "none"

resolveRumorRevert(rumorHash) ==
    LET data == rumorEpochData[rumorHash][currentEpoch]
    IN  IF data.trueVoteCount + data.falseVoteCount < MIN_VOTES_TO_RESOLVE
        THEN "NotEnoughVotes"
        ELSE IF resolution[rumorHash][currentEpoch].resolved THEN "AlreadyResolved"
        ELSE "none"

\* variant: a tie resolves to true
resolveRumor_TieTrue(sender, rumorHash) ==
    LET err  == resolveRumorRevert(rumorHash)
        data == rumorEpochData[rumorHash][currentEpoch]
    IN  /\ Called("resolveRumor", err)
        /\ resolution' =
              IF err = "none"
              THEN [resolution EXCEPT ![rumorHash][currentEpoch] =
                       [resolved |-> TRUE,
                        consensus |-> data.weightedTrueVotes >= data.weightedFalseVotes]]
              ELSE resolution
        /\ UNCHANGED <<identityVars, bootstrapUsed, owner, currentEpoch, rumorVars,
                       voteVars, hasClaimed, weightVars, clockVars, voteCap, sqrtCall, monitor>>

resolveRumor(sender, rumorHash) ==
    LET err  == resolveRumorRevert(rumorHash)
        data == rumorEpochData[rumorHash][currentEpoch]
    IN  /\ Called("resolveRumor", err)
        /\ resolution' =
              IF err = "none"
              THEN [resolution EXCEPT ![rumorHash][currentEpoch] =
                       [resolved |-> TRUE,
                        consensus |-> data.weightedTrueVotes > data.weightedFalseVotes]]
              ELSE resolution
        /\ UNCHANGED <<identityVars, bootstrapUsed, owner, currentEpoch, rumorVars,
                       voteVars, hasClaimed, weightVars, clockVars, voteCap, sqrtCall, monitor>>

\* variant: an existing claim record is not turned away
claimRewardRevert_NoClaimedCheck(sender, rumorHash, epoch) ==
    IF ~resolution[rumorHash][epoch].resolved THEN "NotResolved"
    ELSE IF ~hasVotedInEpoch[rumorHash][epoch][sender] THEN "DidNotVote"
    ELSE "none"

claimRewardRevert(sender, rumorHash, epoch) ==
    IF ~resolution[rumorHash][epoch].resolved THEN "NotResolved"
    ELSE IF ~hasVotedInEpoch[rumorHash][epoch][sender] THEN "DidNotVote"
    ELSE IF hasClaimed[rumorHash][epoch][sender] THEN "AlreadyClaimed"
    ELSE "none"

Min(a, b) == IF a < b THEN a ELSE b
Max(a, b) == IF a > b THEN a ELSE b

\* variant: the reward is added without the cap
ClaimedScores_Uncapped(sender, rumorHash, epoch) ==
    LET old == trustScore[sender]
    IN  IF voteChoice[rumorHash][epoch][sender] = resolution[rumorHash][epoch].consensus
        THEN [trustScore EXCEPT ![sender] = old + REWARD_AMOUNT]
        ELSE LET penalised == [trustScore EXCEPT ![sender] = Max(0, old - PENALTY_AMOUNT)]
             IN  IF old > 0 /\ penalised[sender] = 0
                 THEN PropagateToInviter(penalised, sender)
                 ELSE penalised

\* variant: the cascade fires at every penalty that ends at 0, also when the
\* score was 0 before
ClaimedScores_CascadeAtZero(sender, rumorHash, epoch) ==
    LET old == trustScore[sender]
    IN  IF voteChoice[rumorHash][epoch][sender] = resolution[rumorHash][epoch].consensus
        THEN [trustScore EXCEPT ![sender] = Min(MAX_TRUST, old + REWARD_AMOUNT)]
        ELSE LET penalised == [trustScore EXCEPT ![sender] = Max(0, old - PENALTY_AMOUNT)]
             IN  IF penalised[sender] = 0
                 THEN PropagateToInviter(penalised, sender)
                 ELSE penalised

\* trustScore after a claim: the reward capped at MAX_TRUST, or the penalty
\* floored at 0 with the slashing cascade when it brings the score down to 0
ClaimedScores(sender, rumorHash, epoch) ==
    LET old == trustScore[sender]
    IN  IF voteChoice[rumorHash][epoch][sender] = resolution[rumorHash][epoch].consensus
        THEN [trustScore EXCEPT ![sender] = Min(MAX_TRUST, old + REWARD_AMOUNT)]
        ELSE LET penalised == [trustScore EXCEPT ![sender] = Max(0, old - PENALTY_AMOUNT)]
             IN  IF old > 0 /\ penalised[sender] = 0
                 THEN PropagateToInviter(penalised, sender)
                 ELSE penalised

claimReward(sender, rumorHash, epoch) ==
    LET err == claimRewardRevert(sender, rumorHash, epoch)
    IN  /\ Called("claimReward", err)
        /\ IF err = "none"
           THEN /\ trustScore' = ClaimedScores(sender, rumorHash, epoch)
                /\ hasClaimed' = [hasClaimed EXCEPT ![rumorHash][epoch][sender] = TRUE]
           ELSE UNCHANGED <<trustScore, hasClaimed>>
        /\ UNCHANGED <<inviter, isRegistered, userCommitment, bootstrapUsed, owner,
                       currentEpoch, rumorVars, voteVars, resolution, weightVars, clockVars, voteCap, sqrtCall, monitor>>

(***************************************************************************)
(* View functions                                                          *)
(***************************************************************************)
getRumorVotes(rumorHash) == rumorEpochData[rumorHash][currentEpoch]

getRumorVotesForEpoch(rumorHash, epoch) == rumorEpochData[rumorHash][epoch]

hasVoted(rumorHash, voter) == hasVotedInEpoch[rumorHash][currentEpoch][voter]

isNullifierUsed(rumorHash, nullifier) == nullifierUsed[rumorHash][currentEpoch][nullifier]

\* variant: the ratio is taken on the raw counts
getRumorTrustScore_Unweighted(rumorHash) ==
    LET data  == rumorEpochData[rumorHash][currentEpoch]
        total == data.trueVoteCount + data.falseVoteCount
    IN  IF total = 0 THEN 50
        ELSE (data.trueVoteCount * 100) \div total

getRumorTrustScore(rumorHash) ==
    LET data  == rumorEpochData[rumorHash][currentEpoch]
        total == data.weightedTrueVotes + data.weightedFalseVotes
    IN  IF total = 0 THEN 50
        ELSE (data.weightedTrueVotes * 100) \div total

isBootstrapActive == bootstrapUsed < BOOTSTRAP_SLOTS

remainingBootstrapSlots == BOOTSTRAP_SLOTS - bootstrapUsed

(***************************************************************************)
(* The contract as deployed from the sources: registration, voting,        *)
(* epochs and slashing, called by any account                              *)
(***************************************************************************)
Next ==
    \/ \E sender \in Users, c \in Commitment : bootstrapRegister(sender, c)
    \/ \E sender \in Users, invitee \in Users, c \in Commitment : inviteUser(sender, invitee, c)
    \/ \E sender \in Users, h \in RumorHash, isTrue \in BOOLEAN, n \in Nullifier :
          castVoteWithNullifier(sender, h, isTrue, n)
    \/ \E sender \in Users, h \in RumorHash, isTrue \in BOOLEAN : castVote(sender, h, isTrue)
    \/ \E sender \in Users : advanceEpoch(sender)
    \/ \E sender \in Users, user \in Users, amount \in SlashAmount : slash(sender, user, amount)

Spec == Init /\ [][Next]_vars

(***************************************************************************)
(* The reputation ledger of the specification: registration, plain votes,  *)
(* epochs, resolution, claims and slashing                                 *)
(***************************************************************************)
NextLedger ==
    \/ \E sender \in Users, c \in Commitment : bootstrapRegister(sender, c)
    \/ \E sender \in Users, invitee \in Users, c \in Commitment : inviteUser(sender, invitee, c)
    \/ \E sender \in Users, h \in RumorHash, isTrue \in BOOLEAN : castVote(sender, h, isTrue)
    \/ \E sender \in Users : advanceEpoch(sender)
    \/ \E sender \in Users, h \in RumorHash : resolveRumor(sender, h)
    \/ \E sender \in Users, h \in RumorHash, e \in Epochs : claimReward(sender, h, e)
    \/ \E sender \in Users, user \in Users, amount \in SlashAmount : slash(sender, user, amount)

SpecLedger == Init /\ [][NextLedger]_vars

(***************************************************************************)
(* The on-chain rumor registry                                             *)
(***************************************************************************)
RegistryRumorHash == 1..NumRegistryRumors
RumorContent == {"a", "b"}

\* the constructor, with the rumor table over the hashes of this specification
InitRumors ==
    /\ owner = Deployer
    /\ trustScore = [a \in Address |-> IF a = Deployer THEN INITIAL_TRUST ELSE 0]
    /\ inviter = [a \in Address |-> 0]
    /\ isRegistered = [a \in Address |-> a = Deployer]
    /\ userCommitment = [a \in Address |-> IF a = Deployer THEN GenesisCommitment ELSE 0]
    /\ bootstrapUsed = 1
    /\ currentEpoch = 0
    /\ rumors = [h \in RegistryRumorHash |-> EmptyRumor]
    /\ rumorHashes = <<>>
    /\ rumorEpochData = [h \in RumorHash |-> [e \in Epochs |-> EmptyEpochData]]
    /\ nullifierUsed = [h \in RumorHash |-> [e \in Epochs |-> [n \in Nullifier |-> FALSE]]]
    /\ hasVotedInEpoch = [h \in RumorHash |-> [e \in Epochs |-> [a \in Address |-> FALSE]]]
    /\ voteChoice = [h \in RumorHash |-> [e \in Epochs |-> [a \in Address |-> FALSE]]]
    /\ resolution = [h \in RumorHash |-> [e \in Epochs |-> Unresolved]]
    /\ hasClaimed = [h \in RumorHash |-> [e \in Epochs |-> [a \in Address |-> FALSE]]]
    /\ call = NoCall
    /\ scoreIn = 0
    /\ weightOut = -1
    /\ blockTimestamp = 0
    /\ epochStartTime = 0
    /\ voteCap = MaxVotes
    /\ sqrtCall = SqrtIdle
    /\ monitor = ModuleLoaded

NextRumors ==
    \/ \E sender \in Users, c \in Commitment : bootstrapRegister(sender, c)
    \/ \E sender \in Users, h \in RegistryRumorHash, c \in RumorContent :
          registerRumor(sender, h, c)
    \/ \E sender \in Users : advanceEpoch(sender)

SpecRumors == InitRumors /\ [][NextRumors]_vars

(***************************************************************************)
(* The identity registry alone, with enough accounts to use up the         *)
(* bootstrap slots                                                         *)
(***************************************************************************)
RegistryInviters == {1, 2}
RegistryInvitees == {1, 2, 3}

NextRegistry ==
    \/ \E sender \in RegistryUsers, c \in Commitment : bootstrapRegister(sender, c)
    \/ \E sender \in RegistryInviters, invitee \in RegistryInvitees, c \in Commitment :
          inviteUser(sender, invitee, c)

SpecRegistry == Init /\ [][NextRegistry]_vars

(***************************************************************************)
(* The weight function alone, on every score from 0 to MAX_TRUST           *)
(***************************************************************************)
InitWeight ==
    /\ owner = Deployer
    /\ trustScore = [a \in Address |-> IF a = Deployer THEN INITIAL_TRUST ELSE 0]
    /\ inviter = [a \in Address |-> 0]
    /\ isRegistered = [a \in Address |-> a = Deployer]
    /\ userCommitment = [a \in Address |-> IF a = Deployer THEN GenesisCommitment ELSE 0]
    /\ bootstrapUsed = 1
    /\ currentEpoch = 0
    /\ rumors = [h \in RumorHash |-> EmptyRumor]
    /\ rumorHashes = <<>>
    /\ rumorEpochData = [h \in RumorHash |-> [e \in Epochs |-> EmptyEpochData]]
    /\ nullifierUsed = [h \in RumorHash |-> [e \in Epochs |-> [n \in Nullifier |-> FALSE]]]
    /\ hasVotedInEpoch = [h \in RumorHash |-> [e \in Epochs |-> [a \in Address |-> FALSE]]]
    /\ voteChoice = [h \in RumorHash |-> [e \in Epochs |-> [a \in Address |-> FALSE]]]
    /\ resolution = [h \in RumorHash |-> [e \in Epochs |-> Unresolved]]
    /\ hasClaimed = [h \in RumorHash |-> [e \in Epochs |-> [a \in Address |-> FALSE]]]
    /\ call = NoCall
    /\ scoreIn \in 0..MAX_TRUST
    /\ weightOut = -1
    /\ blockTimestamp = 0
    /\ epochStartTime = 0
    /\ voteCap = MaxVotes
    /\ sqrtCall = SqrtIdle
    /\ monitor = ModuleLoaded

calculateVoteWeightCall ==
    /\ weightOut = -1
    /\ weightOut' = VoteWeightOfScore(scoreIn)
    /\ UNCHANGED <<storage, call, scoreIn, clockVars, voteCap, sqrtCall, monitor>>

NextWeight == calculateVoteWeightCall

SpecWeight == InitWeight /\ [][NextWeight]_vars

(***************************************************************************)
(* Epochs against block time.  The minimum epoch duration of section 4.3   *)
(* of the specification is counted in the steps of block.timestamp;        *)
(* advanceEpoch of the contract does not read block.timestamp.             *)
(***************************************************************************)
MinEpochDuration == 2

\* a block is mined: block.timestamp moves on, the storage is untouched
mine ==
    /\ blockTimestamp < MaxTime
    /\ blockTimestamp' = blockTimestamp + 1
    /\ UNCHANGED <<storage, call, weightVars, epochStartTime, voteCap, sqrtCall, monitor>>

NextEpochs ==
    \/ \E sender \in Users, c \in Commitment : bootstrapRegister(sender, c)
    \/ \E sender \in Users, h \in RumorHash, isTrue \in BOOLEAN : castVote(sender, h, isTrue)
    \/ \E sender \in Users : advanceEpoch(sender)
    \/ mine

SpecEpochs == Init /\ [][NextEpochs]_vars

(***************************************************************************)
(* Votes of both kinds, epochs, resolution, claims and slashing together,   *)
(* with registration through the bootstrap slots                           *)
(***************************************************************************)
NextAll ==
    \/ \E sender \in Users, c \in Commitment : bootstrapRegister(sender, c)
    \/ \E sender \in Users, h \in RumorHash, isTrue \in BOOLEAN, n \in Nullifier :
          castVoteWithNullifier(sender, h, isTrue, n)
    \/ \E sender \in Users, h \in RumorHash, isTrue \in BOOLEAN : castVote(sender, h, isTrue)
    \/ \E sender \in Users : advanceEpoch(sender)
    \/ \E sender \in Users, h \in RumorHash : resolveRumor(sender, h)
    \/ \E sender \in Users, h \in RumorHash, e \in Epochs : claimReward(sender, h, e)
    \/ \E sender \in Users, user \in Users, amount \in SlashAmount : slash(sender, user, amount)

SpecAll == Init /\ [][NextAll]_vars

(***************************************************************************)
(* Claims at the bounds of the score.  The rumors of the model are a few   *)
(* of the rumors of the ledger: rewards that the deployer has collected on *)
(* other rumors show as a score above INITIAL_TRUST at the start.          *)
(***************************************************************************)
VeteranScores == {INITIAL_TRUST, MAX_TRUST - 1, MAX_TRUST}

InitVeteran ==
    /\ owner = Deployer
    /\ trustScore \in {[a \in Address |-> IF a = Deployer THEN v ELSE 0] : v \in VeteranScores}
    /\ inviter = [a \in Address |-> 0]
    /\ isRegistered = [a \in Address |-> a = Deployer]
    /\ userCommitment = [a \in Address |-> IF a = Deployer THEN GenesisCommitment ELSE 0]
    /\ bootstrapUsed = 1
    /\ currentEpoch = 0
    /\ rumors = [h \in RumorHash |-> EmptyRumor]
    /\ rumorHashes = <<>>
    /\ rumorEpochData = [h \in RumorHash |-> [e \in Epochs |-> EmptyEpochData]]
    /\ nullifierUsed = [h \in RumorHash |-> [e \in Epochs |-> [n \in Nullifier |-> FALSE]]]
    /\ hasVotedInEpoch = [h \in RumorHash |-> [e \in Epochs |-> [a \in Address |-> FALSE]]]
    /\ voteChoice = [h \in RumorHash |-> [e \in Epochs |-> [a \in Address |-> FALSE]]]
    /\ resolution = [h \in RumorHash |-> [e \in Epochs |-> Unresolved]]
    /\ hasClaimed = [h \in RumorHash |-> [e \in Epochs |-> [a \in Address |-> FALSE]]]
    /\ call = NoCall
    /\ scoreIn = 0
    /\ weightOut = -1
    /\ blockTimestamp = 0
    /\ epochStartTime = 0
    /\ voteCap = MaxVotes
    /\ sqrtCall = SqrtIdle
    /\ monitor = ModuleLoaded

NextClaims ==
    \/ \E sender \in Users, c \in Commitment : bootstrapRegister(sender, c)
    \/ \E sender \in Users, h \in RumorHash, isTrue \in BOOLEAN : castVote(sender, h, isTrue)
    \/ \E sender \in Users, h \in RumorHash : resolveRumor(sender, h)
    \/ \E sender \in Users, h \in RumorHash, e \in Epochs : claimReward(sender, h, e)
    \/ \E sender \in Users, user \in Users, amount \in SlashAmount : slash(sender, user, amount)

SpecClaims == InitVeteran /\ [][NextClaims]_vars

(***************************************************************************)
(* The slashing cascade through a claim: the deployer invites, both vote,  *)
(* the rumor is resolved, the owner slashes and the voters claim           *)
(***************************************************************************)
CascadeSlashAmount == {9, 10}

NextCascade ==
    \/ \E sender \in Users, invitee \in Users, c \in Commitment : inviteUser(sender, invitee, c)
    \/ \E sender \in Users, h \in RumorHash, isTrue \in BOOLEAN : castVote(sender, h, isTrue)
    \/ \E sender \in Users, h \in RumorHash : resolveRumor(sender, h)
    \/ \E sender \in Users, h \in RumorHash, e \in Epochs : claimReward(sender, h, e)
    \/ \E sender \in Users, user \in Users, amount \in CascadeSlashAmount :
          slash(sender, user, amount)

SpecCascade == Init /\ [][NextCascade]_vars

(***************************************************************************)
(* Slashing along a chain of invitations                                   *)
(***************************************************************************)
ChainUsers == 1..NumChainUsers
ChainSlashAmount == {0, 3, 10, 101}

NextSlash ==
    \/ \E sender \in ChainUsers, invitee \in ChainUsers, c \in Commitment :
          inviteUser(sender, invitee, c)
    \/ \E sender \in ChainUsers, user \in ChainUsers, amount \in ChainSlashAmount :
          slash(sender, user, amount)

SpecSlash == Init /\ [][NextSlash]_vars

(***************************************************************************)
(* Votes around a resolution, with a third voter                           *)
(***************************************************************************)
NextLock ==
    \/ \E sender \in ChainUsers, c \in Commitment : bootstrapRegister(sender, c)
    \/ \E sender \in ChainUsers, h \in RumorHash, isTrue \in BOOLEAN :
          castVote(sender, h, isTrue)
    \/ \E sender \in ChainUsers, h \in RumorHash : resolveRumor(sender, h)
    \/ \E sender \in ChainUsers, h \in RumorHash, e \in Epochs : claimReward(sender, h, e)

\* the constructor, with room for one vote more than the votes needed to resolve
InitLock ==
    /\ owner = Deployer
    /\ trustScore = [a \in Address |-> IF a = Deployer THEN INITIAL_TRUST ELSE 0]
    /\ inviter = [a \in Address |-> 0]
    /\ isRegistered = [a \in Address |-> a = Deployer]
    /\ userCommitment = [a \in Address |-> IF a = Deployer THEN GenesisCommitment ELSE 0]
    /\ bootstrapUsed = 1
    /\ currentEpoch = 0
    /\ rumors = [h \in RumorHash |-> EmptyRumor]
    /\ rumorHashes = <<>>
    /\ rumorEpochData = [h \in RumorHash |-> [e \in Epochs |-> EmptyEpochData]]
    /\ nullifierUsed = [h \in RumorHash |-> [e \in Epochs |-> [n \in Nullifier |-> FALSE]]]
    /\ hasVotedInEpoch = [h \in RumorHash |-> [e \in Epochs |-> [a \in Address |-> FALSE]]]
    /\ voteChoice = [h \in RumorHash |-> [e \in Epochs |-> [a \in Address |-> FALSE]]]
    /\ resolution = [h \in RumorHash |-> [e \in Epochs |-> Unresolved]]
    /\ hasClaimed = [h \in RumorHash |-> [e \in Epochs |-> [a \in Address |-> FALSE]]]
    /\ call = NoCall
    /\ scoreIn = 0
    /\ weightOut = -1
    /\ blockTimestamp = 0
    /\ epochStartTime = 0
    /\ voteCap = MIN_VOTES_TO_RESOLVE + 1
    /\ sqrtCall = SqrtIdle
    /\ monitor = ModuleLoaded

SpecLock == InitLock /\ [][NextLock]_vars

(***************************************************************************)
(* The operations that are not meant to move a score, with slash to vary   *)
(* the scores they meet                                                    *)
(***************************************************************************)
NextFrame ==
    \/ \E sender \in Users, c \in Commitment : bootstrapRegister(sender, c)
    \/ \E sender \in Users, invitee \in Users, c \in Commitment : inviteUser(sender, invitee, c)
    \/ \E h \in RumorHash, c \in Content : registerRumor(Deployer, h, c)
    \/ \E sender \in Users, h \in RumorHash, isTrue \in BOOLEAN, n \in Nullifier :
          castVoteWithNullifier(sender, h, isTrue, n)
    \/ \E sender \in Users, h \in RumorHash, isTrue \in BOOLEAN : castVote(sender, h, isTrue)
    \/ \E sender \in Users : advanceEpoch(sender)
    \/ \E h \in RumorHash : resolveRumor(Deployer, h)
    \/ \E user \in Users : slash(owner, user, INITIAL_TRUST)

SpecFrame == Init /\ [][NextFrame]_vars

(***************************************************************************)
(* getRumorTrustScore alone, on every tally of up to MaxSideVotes votes    *)
(* per side, each vote of a weight from 1 to 10                            *)
(***************************************************************************)
SideTallies ==
    {t \in (0..MaxSideVotes) \X (0..(10 * MaxSideVotes)) : t[1] <= t[2] /\ t[2] <= 10 * t[1]}

TalliesRead ==
    {[weightedTrueVotes |-> t[2], trueVoteCount |-> t[1],
      weightedFalseVotes |-> f[2], falseVoteCount |-> f[1]] : t \in SideTallies, f \in SideTallies}

InitRumorScore ==
    /\ owner = Deployer
    /\ trustScore = [a \in Address |-> IF a = Deployer THEN INITIAL_TRUST ELSE 0]
    /\ inviter = [a \in Address |-> 0]
    /\ isRegistered = [a \in Address |-> a = Deployer]
    /\ userCommitment = [a \in Address |-> IF a = Deployer THEN GenesisCommitment ELSE 0]
    /\ bootstrapUsed = 1
    /\ currentEpoch = 0
    /\ rumors = [h \in RumorHash |-> EmptyRumor]
    /\ rumorHashes = <<>>
    /\ rumorEpochData \in [RumorHash -> {[e \in Epochs |-> IF e = 0 THEN d ELSE EmptyEpochData] :
                                             d \in TalliesRead}]
    /\ nullifierUsed = [h \in RumorHash |-> [e \in Epochs |-> [n \in Nullifier |-> FALSE]]]
    /\ hasVotedInEpoch = [h \in RumorHash |-> [e \in Epochs |-> [a \in Address |-> FALSE]]]
    /\ voteChoice = [h \in RumorHash |-> [e \in Epochs |-> [a \in Address |-> FALSE]]]
    /\ resolution = [h \in RumorHash |-> [e \in Epochs |-> Unresolved]]
    /\ hasClaimed = [h \in RumorHash |-> [e \in Epochs |-> [a \in Address |-> FALSE]]]
    /\ call = NoCall
    /\ scoreIn = 0
    /\ weightOut = -1
    /\ blockTimestamp = 0
    /\ epochStartTime = 0
    /\ voteCap = MaxVotes
    /\ sqrtCall = SqrtIdle
    /\ monitor = ModuleLoaded

getRumorTrustScoreCall(rumorHash) ==
    /\ weightOut = -1
    /\ weightOut' = getRumorTrustScore(rumorHash)
    /\ call' = [op |-> "getRumorTrustScore", err |-> "none"]
    /\ UNCHANGED <<storage, scoreIn, clockVars, voteCap, sqrtCall, monitor>>

NextRumorScore == \E h \in RumorHash : getRumorTrustScoreCall(h)

SpecRumorScore == InitRumorScore /\ [][NextRumorScore]_vars

(***************************************************************************)
(* Every operation of the contract next to advanceEpoch, to see which of   *)
(* them move the epoch counter                                             *)
(***************************************************************************)
NextCounter ==
    \/ \E sender \in Users, c \in Commitment : bootstrapRegister(sender, c)
    \/ \E invitee \in Users, c \in Commitment : inviteUser(Deployer, invitee, c)
    \/ \E h \in RumorHash, c \in Content : registerRumor(Deployer, h, c)
    \/ \E sender \in Users, h \in RumorHash, n \in Nullifier :
          castVoteWithNullifier(sender, h, TRUE, n)
    \/ \E sender \in Users, h \in RumorHash : castVote(sender, h, FALSE)
    \/ \E sender \in Users : advanceEpoch(sender)
    \/ \E h \in RumorHash : resolveRumor(Deployer, h)
    \/ \E sender \in Users, h \in RumorHash, e \in Epochs : claimReward(sender, h, e)
    \/ \E user \in Users : slash(owner, user, INITIAL_TRUST)

SpecCounter == Init /\ [][NextCounter]_vars

(***************************************************************************)
(* Invitations by the deployer and slashes of the other accounts: the      *)
(* deployer is never slashed itself, so whatever it loses it loses on      *)
(* account of an invitee                                                   *)
(***************************************************************************)
NextStake ==
    \/ \E invitee \in ChainUsers, c \in Commitment : inviteUser(Deployer, invitee, c)
    \/ \E user \in ChainUsers \ {Deployer}, amount \in ChainSlashAmount :
          slash(owner, user, amount)

SpecStake == Init /\ [][NextStake]_vars

(***************************************************************************)
(* The invitation graph: registration through the bootstrap slots and      *)
(* through invitations by any account, of any address (address(0), which   *)
(* sends no transaction, included), with slashes to vary the stakes        *)
(***************************************************************************)
NextInvites ==
    \/ \E sender \in ChainUsers, c \in Commitment : bootstrapRegister(sender, c)
    \/ \E sender \in ChainUsers, invitee \in ChainUsers \cup {0}, c \in Commitment :
          inviteUser(sender, invitee, c)
    \/ \E user \in ChainUsers : slash(owner, user, INITIAL_TRUST)

SpecInvites == Init /\ [][NextInvites]_vars

(***************************************************************************)
(* Votes of both kinds by accounts of weight 1, 3, 9 and 10: a deployer of  *)
(* long standing, newcomers, and a slash that brings a score of 100 down   *)
(* to 1                                                                    *)
(***************************************************************************)
TallySlashAmount == {99}

NextTally ==
    \/ \E sender \in Users, c \in Commitment : bootstrapRegister(sender, c)
    \/ \E sender \in Users, h \in RumorHash, isTrue \in BOOLEAN, n \in Nullifier :
          castVoteWithNullifier(sender, h, isTrue, n)
    \/ \E sender \in Users, h \in RumorHash, isTrue \in BOOLEAN : castVote(sender, h, isTrue)
    \/ \E sender \in Users : advanceEpoch(sender)
    \/ \E user \in Users, amount \in TallySlashAmount : slash(owner, user, amount)

SpecTally == InitVeteran /\ [][NextTally]_vars

(***************************************************************************)
(* The weight function next to the votes that consult it: the deployer     *)
(* holds any score from 0 to MAX_TRUST, its weight is read and it votes    *)
(***************************************************************************)
InitScores ==
    /\ owner = Deployer
    /\ \E v \in 0..MAX_TRUST :
          /\ trustScore = [a \in Address |-> IF a = Deployer THEN v ELSE 0]
          /\ scoreIn = v
    /\ inviter = [a \in Address |-> 0]
    /\ isRegistered = [a \in Address |-> a = Deployer]
    /\ userCommitment = [a \in Address |-> IF a = Deployer THEN GenesisCommitment ELSE 0]
    /\ bootstrapUsed = 1
    /\ currentEpoch = 0
    /\ rumors = [h \in RumorHash |-> EmptyRumor]
    /\ rumorHashes = <<>>
    /\ rumorEpochData = [h \in RumorHash |-> [e \in Epochs |-> EmptyEpochData]]
    /\ nullifierUsed = [h \in RumorHash |-> [e \in Epochs |-> [n \in Nullifier |-> FALSE]]]
    /\ hasVotedInEpoch = [h \in RumorHash |-> [e \in Epochs |-> [a \in Address |-> FALSE]]]
    /\ voteChoice = [h \in RumorHash |-> [e \in Epochs |-> [a \in Address |-> FALSE]]]
    /\ resolution = [h \in RumorHash |-> [e \in Epochs |-> Unresolved]]
    /\ hasClaimed = [h \in RumorHash |-> [e \in Epochs |-> [a \in Address |-> FALSE]]]
    /\ call = NoCall
    /\ weightOut = -1
    /\ blockTimestamp = 0
    /\ epochStartTime = 0
    /\ voteCap = MaxVotes
    /\ sqrtCall = SqrtIdle
    /\ monitor = ModuleLoaded

NextScores ==
    \/ calculateVoteWeightCall
    \/ \E sender \in Users, h \in RumorHash, n \in Nullifier :
          castVoteWithNullifier(sender, h, FALSE, n)
    \/ \E sender \in Users, h \in RumorHash : castVote(sender, h, TRUE)

SpecScores == InitScores /\ [][NextScores]_vars

(***************************************************************************)
(* The connection monitor alone, in a browser                              *)
(***************************************************************************)
NextMonitor ==
    \/ startConnectionMonitoring
    \/ intervalTick
    \/ startupTick
    \/ \E check \in monitor.inFlight, err \in {null, AckError}, last \in BOOLEAN :
          putAck(check, err, last)
    \/ \E n \in PeerEstimates : peerCountTimeout(n)
    \/ reconnect
    \/ \E l \in Listeners : subscribeToConnection(l)
    \/ \E l \in Listeners : unsubscribe(l)

SpecMonitor == Init /\ [][NextMonitor]_vars

(***************************************************************************)
(* _sqrt alone, step by step: on the small arguments, on the arguments     *)
(* score * 1e18 that calculateVoteWeight passes, and on the largest        *)
(* uint256 value.  The EVM runs a call to its end: weak fairness.          *)
(***************************************************************************)
SqrtInputs ==
    {BigFromInt(n) : n \in 0..MaxSqrtInput}
       \cup {BigMul(BigFromInt(sc), SQRT_SCALE) : sc \in 1..MAX_TRUST}
       \cup {Uint256Max}

InitSqrt ==
    /\ owner = Deployer
    /\ trustScore = [a \in Address |-> IF a = Deployer THEN INITIAL_TRUST ELSE 0]
    /\ inviter = [a \in Address |-> 0]
    /\ isRegistered = [a \in Address |-> a = Deployer]
    /\ userCommitment = [a \in Address |-> IF a = Deployer THEN GenesisCommitment ELSE 0]
    /\ bootstrapUsed = 1
    /\ currentEpoch = 0
    /\ rumors = [h \in RumorHash |-> EmptyRumor]
    /\ rumorHashes = <<>>
    /\ rumorEpochData = [h \in RumorHash |-> [e \in Epochs |-> EmptyEpochData]]
    /\ nullifierUsed = [h \in RumorHash |-> [e \in Epochs |-> [n \in Nullifier |-> FALSE]]]
    /\ hasVotedInEpoch = [h \in RumorHash |-> [e \in Epochs |-> [a \in Address |-> FALSE]]]
    /\ voteChoice = [h \in RumorHash |-> [e \in Epochs |-> [a \in Address |-> FALSE]]]
    /\ resolution = [h \in RumorHash |-> [e \in Epochs |-> Unresolved]]
    /\ hasClaimed = [h \in RumorHash |-> [e \in Epochs |-> [a \in Address |-> FALSE]]]
    /\ call = NoCall
    /\ scoreIn = 0
    /\ weightOut = -1
    /\ blockTimestamp = 0
    /\ epochStartTime = 0
    /\ voteCap = MaxVotes
    /\ sqrtCall \in {[pc |-> "entry", x |-> x, y |-> <<>>, z |-> <<>>] : x \in SqrtInputs}
    /\ monitor = ModuleLoaded

NextSqrt == sqrtEnter \/ sqrtIterate

\* the call keeps running until it has returned or panicked: NextSqrt is enabled
\* exactly in the positions "entry" and "loop", so this is WF_vars(NextSqrt)
SqrtRuns == []<>(sqrtCall.pc \in {"done", "panic"}) \/ []<><<NextSqrt>>_vars

SpecSqrt == InitSqrt /\ [][NextSqrt]_vars /\ SqrtRuns

C2_SecondVoteAlreadyVoted ==
    [][\A u \in Users, h \in RumorHash, isTrue \in BOOLEAN :
          (hasVotedInEpoch[h][currentEpoch][u] /\ castVote(u, h, isTrue))
              => /\ call'.err = "AlreadyVoted"
                 /\ rumorEpochData'[h][currentEpoch] = rumorEpochData[h][currentEpoch]]_vars

\* C2 (amended): such a castVote always reverts and leaves the tally
\* unchanged; the revert reason is AlreadyVoted while the identity's trust
\* score is above 0 and the zero-score error once it has dropped to 0.
C2_SecondVoteReverts ==
    [][\A u \in Users, h \in RumorHash, isTrue \in BOOLEAN :
          (hasVotedInEpoch[h][currentEpoch][u] /\ castVote(u, h, isTrue))
              => /\ call'.err = IF trustScore[u] = 0 THEN "InsufficientTrustToInvite"
                                ELSE "AlreadyVoted"
                 /\ rumorEpochData'[h][currentEpoch] = rumorEpochData[h][currentEpoch]]_vars

\* a castVote has just been rejected with AlreadyVoted on a tally holding a vote
C2_Witness ==
    /\ call = [op |-> "castVote", err |-> "AlreadyVoted"]
    /\ \E h \in RumorHash : getRumorVotes(h).trueVoteCount + getRumorVotes(h).falseVoteCount >= 1

\* C3: an identity that has already voted on (item, epoch) adds nothing more
\* to that tally, whichever of castVote and castVoteWithNullifier it calls
\* and whatever nullifier it passes.
C3_OneVotePerIdentity ==
    [][\A u \in Users, h \in RumorHash, isTrue \in BOOLEAN, n \in Nullifier :
          (/\ hasVotedInEpoch[h][currentEpoch][u]
           /\ castVote(u, h, isTrue) \/ castVoteWithNullifier(u, h, isTrue, n))
              => rumorEpochData'[h][currentEpoch] = rumorEpochData[h][currentEpoch]]_vars

\* C4 (as stated): once a nullifier is used for (item, epoch), a
\* castVoteWithNullifier with it from any caller reverts with AlreadyVoted
\* and changes no tally.
C4_UsedNullifierAlreadyVoted ==
    [][\A u \in Users, h \in RumorHash, isTrue \in BOOLEAN, n \in Nullifier :
          (nullifierUsed[h][currentEpoch][n] /\ castVoteWithNullifier(u, h, isTrue, n))
              => /\ call'.err = "AlreadyVoted"
                 /\ rumorEpochData' = rumorEpochData]_vars

\* C4 (amended): such a call always reverts and changes no tally; the reason
\* is AlreadyVoted for a registered caller with a positive trust score,
\* NotRegistered for an unregistered caller and the zero-score error for a
\* registered caller whose score is 0.
C4_UsedNullifierReverts ==
    [][\A u \in Users, h \in RumorHash, isTrue \in BOOLEAN, n \in Nullifier :
          (nullifierUsed[h][currentEpoch][n] /\ castVoteWithNullifier(u, h, isTrue, n))
              => /\ call'.err = IF ~isRegistered[u] THEN "NotRegistered"
                                ELSE IF trustScore[u] = 0 THEN "InsufficientTrustToInvite"
                                ELSE "AlreadyVoted"
                 /\ rumorEpochData' = rumorEpochData]_vars

\* a castVoteWithNullifier has just been rejected for a used nullifier
C4_Witness ==
    /\ call = [op |-> "castVoteWithNullifier", err |-> "AlreadyVoted"]
    /\ \E h \in RumorHash, n \in Nullifier : nullifierUsed[h][currentEpoch][n]

\* the registration record of an account
Registration(a) == <<isRegistered[a], inviter[a], userCommitment[a]>>

\* C5 (as stated): bootstrapRegister by a registered caller and inviteUser
\* of a registered invitee both revert with AlreadyRegistered, and the
\* registration record of a registered account never changes.
C5_RegisteredOnceAlreadyRegistered ==
    [][/\ \A u \in Users, c \in Commitment :
             (isRegistered[u] /\ bootstrapRegister(u, c)) => call'.err = "AlreadyRegistered"
       /\ \A u \in Users, i \in Users, c \in Commitment :
             (isRegistered[i] /\ inviteUser(u, i, c)) => call'.err = "AlreadyRegistered"
       /\ \A a \in Address :
             isRegistered[a] => Registration(a)' = Registration(a)]_vars

\* C5 (amended): the same, with inviteUser called by a registered account
\* (an unregistered caller is rejected with NotRegistered first).
C5_RegisteredOnce ==
    [][/\ \A u \in Users, c \in Commitment :
             (isRegistered[u] /\ bootstrapRegister(u, c)) => call'.err = "AlreadyRegistered"
       /\ \A u \in Users, i \in Users, c \in Commitment :
             (isRegistered[i] /\ inviteUser(u, i, c))
                 => call'.err = IF isRegistered[u] THEN "AlreadyRegistered" ELSE "NotRegistered"
       /\ \A a \in Address :
             isRegistered[a] => Registration(a)' = Registration(a)]_vars

\* an invited account exists and a registration has just been rejected
C5_Witness ==
    /\ call.err = "AlreadyRegistered"
    /\ \E a \in Users : isRegistered[a] /\ inviter[a] # 0

\* accounts admitted without an inviter
BootstrapAdmitted == {a \in Address : isRegistered[a] /\ inviter[a] = 0}

\* C6 (as stated): at most BOOTSTRAP_SLOTS accounts are admitted without an
\* inviter, remainingBootstrapSlots is BOOTSTRAP_SLOTS minus their number,
\* 9 after deployment and never negative, and once the ceiling is reached
\* bootstrapRegister reverts with BootstrapPeriodEnded.
C6_BootstrapCeilingClosed ==
    /\ remainingBootstrapSlots = 9
    /\ [][/\ Cardinality(BootstrapAdmitted') <= BOOTSTRAP_SLOTS
          /\ remainingBootstrapSlots' = BOOTSTRAP_SLOTS - Cardinality(BootstrapAdmitted')
          /\ remainingBootstrapSlots' >= 0
          /\ \A u \in Address, c \in Commitment :
                (bootstrapUsed >= BOOTSTRAP_SLOTS /\ bootstrapRegister(u, c))
                    => call'.err = "BootstrapPeriodEnded"]_vars

\* C6 (amended): the same, with BootstrapPeriodEnded for a caller that is not
\* yet registered (a registered caller is rejected with AlreadyRegistered
\* first); at the ceiling every bootstrapRegister reverts.
C6_BootstrapCeiling ==
    /\ remainingBootstrapSlots = 9
    /\ [][/\ Cardinality(BootstrapAdmitted') <= BOOTSTRAP_SLOTS
          /\ remainingBootstrapSlots' = BOOTSTRAP_SLOTS - Cardinality(BootstrapAdmitted')
          /\ remainingBootstrapSlots' >= 0
          /\ \A u \in Address, c \in Commitment :
                (bootstrapUsed >= BOOTSTRAP_SLOTS /\ bootstrapRegister(u, c))
                    => call'.err = IF isRegistered[u] THEN "AlreadyRegistered"
                                   ELSE "BootstrapPeriodEnded"]_vars

\* the slots are used up and a newcomer has just been turned away
C6_Witness ==
    /\ call = [op |-> "bootstrapRegister", err |-> "BootstrapPeriodEnded"]
    /\ remainingBootstrapSlots = 0
    /\ Cardinality(BootstrapAdmitted) = BOOTSTRAP_SLOTS

\* C7: a successful inviteUser registers the invitee with INITIAL_TRUST and
\* the caller as its inviter and leaves the caller's trust score unchanged.
C7_InviteEffect ==
    [][\A u \in Users, i \in Users, c \in Commitment :
          (inviteUser(u, i, c) /\ call'.err = "none")
              => /\ isRegistered'[i]
                 /\ trustScore'[i] = INITIAL_TRUST
                 /\ inviter'[i] = u
                 /\ trustScore'[u] = trustScore[u]]_vars

\* an invitation has just succeeded
C7_Witness ==
    /\ call = [op |-> "inviteUser", err |-> "none"]
    /\ \E a \in Users : isRegistered[a] /\ inviter[a] # 0 /\ trustScore[a] = INITIAL_TRUST

\* C8: inviteUser by an unregistered caller reverts with NotRegistered;
\* inviteUser of an unregistered invitee by a registered caller whose trust
\* score is below INVITE_STAKE reverts with InsufficientTrustToInvite; in
\* both cases nobody is registered by the call.
C8_InviteRejected ==
    [][\A u \in Users, i \in Users, c \in Commitment :
          /\ (~isRegistered[u] /\ inviteUser(u, i, c))
                => call'.err = "NotRegistered" /\ isRegistered' = isRegistered
          /\ (/\ isRegistered[u] /\ trustScore[u] < INVITE_STAKE /\ ~isRegistered[i]
              /\ inviteUser(u, i, c))
                => call'.err = "InsufficientTrustToInvite" /\ isRegistered' = isRegistered]_vars

\* an inviter with too little trust has just been turned down
C8_Witness ==
    /\ call = [op |-> "inviteUser", err |-> "InsufficientTrustToInvite"]
    /\ \E u \in Users : isRegistered[u] /\ trustScore[u] < INVITE_STAKE
    /\ \E i \in Users : ~isRegistered[i]

\* C9: inviteUser by a registered account with itself as the invitee reverts
\* with CannotInviteSelf.
C9_SelfInviteError ==
    [][\A u \in Users, c \in Commitment :
          (isRegistered[u] /\ inviteUser(u, u, c)) => call'.err = "CannotInviteSelf"]_vars

\* C10: the weight returned for a score r in 0..100 is floor(sqrt(r)):
\* w * w <= r < (w + 1) * (w + 1); 0 gives 0, 10 gives 3 and 100 gives 10.
C10_WeightIsFloorSqrt ==
    weightOut # -1 =>
        /\ weightOut >= 0
        /\ weightOut * weightOut <= scoreIn
        /\ scoreIn < (weightOut + 1) * (weightOut + 1)
        /\ scoreIn = 0 => weightOut = 0
        /\ scoreIn = 10 => weightOut = 3
        /\ scoreIn = 100 => weightOut = 10

\* the weight of score 10 has been computed
C10_Witness == scoreIn = 10 /\ weightOut = 3

\* the integer square root of a score, by its definition
FloorSqrt(n) == CHOOSE k \in 0..n : k * k <= n /\ (k + 1) * (k + 1) > n

\* C11: a successful castVote(rumorHash, isTrue) adds floor(sqrt(score of the
\* sender)) to the chosen side's weighted sum and 1 to the chosen side's count
\* in the tally of (rumorHash, currentEpoch), marks the sender as having voted
\* for that key, and leaves the other side's sum and count and every other
\* (rumor, epoch) tally unchanged.
C11_VoteEffect ==
    [][\A s \in Users, h \in RumorHash, isTrue \in BOOLEAN :
          (castVote(s, h, isTrue) /\ call'.err = "none") =>
             LET old == rumorEpochData[h][currentEpoch]
                 new == rumorEpochData'[h][currentEpoch]
                 w   == FloorSqrt(trustScore[s])
             IN  /\ new = IF isTrue
                          THEN [weightedTrueVotes  |-> old.weightedTrueVotes + w,
                                trueVoteCount      |-> old.trueVoteCount + 1,
                                weightedFalseVotes |-> old.weightedFalseVotes,
                                falseVoteCount     |-> old.falseVoteCount]
                          ELSE [weightedTrueVotes  |-> old.weightedTrueVotes,
                                trueVoteCount      |-> old.trueVoteCount,
                                weightedFalseVotes |-> old.weightedFalseVotes + w,
                                falseVoteCount     |-> old.falseVoteCount + 1]
                 /\ hasVotedInEpoch'[h][currentEpoch][s]
                 /\ \A h2 \in RumorHash, e2 \in Epochs :
                       <<h2, e2>> # <<h, currentEpoch>> =>
                          rumorEpochData'[h2][e2] = rumorEpochData[h2][e2]]_vars

\* an account of score 10 has just voted true on a rumor without votes: the
\* tally of epoch 0 reads weighted true 3, true count 1
C11_Witness ==
    /\ call = [op |-> "castVote", err |-> "none"]
    /\ \E h \in RumorHash, a \in Users :
          /\ trustScore[a] = 10
          /\ hasVotedInEpoch[h][0][a] /\ voteChoice[h][0][a]
          /\ rumorEpochData[h][0] = [weightedTrueVotes |-> 3, weightedFalseVotes |-> 0,
                                     trueVoteCount |-> 1, falseVoteCount |-> 0]

\* C12: castVote by an unregistered account fails with NotRegistered, and
\* castVote by a registered account of score 0 fails with the zero-reputation
\* error (ZeroReputation, ZeroTrust for the client); neither writes a vote
\* receipt or changes a tally.
C12_VoteRejected ==
    [][\A s \in Users, h \in RumorHash, isTrue \in BOOLEAN :
          castVote(s, h, isTrue) =>
             /\ ~isRegistered[s] =>
                   call'.err = "NotRegistered" /\ UNCHANGED voteVars
             /\ (isRegistered[s] /\ trustScore[s] = 0) =>
                   call'.err \in {"ZeroReputation", "ZeroTrust"} /\ UNCHANGED voteVars]_vars

\* C13: whenever the minimum epoch duration has elapsed since the epoch
\* started, advanceEpoch succeeds for every caller, owner or not, registered
\* or not.
C13_AdvancePermissionless ==
    [][\A s \in Users :
          (blockTimestamp - epochStartTime >= MinEpochDuration /\ advanceEpoch(s)) =>
             call'.err = "none"]_vars

\* C14: advanceEpoch called before the minimum epoch duration has elapsed
\* since the last advance (or the deployment) fails with EpochNotEnded and
\* leaves currentEpoch unchanged.
C14_AdvanceNeedsDuration ==
    [][\A s \in Users :
          (blockTimestamp - epochStartTime < MinEpochDuration /\ advanceEpoch(s)) =>
             /\ call'.err \in {"EpochNotEnded", "EpochNotEndedYet"}
             /\ currentEpoch' = currentEpoch]_vars

\* C15: a successful advanceEpoch leaves every tally, vote receipt (has-voted
\* flag, side chosen, used nullifier) and resolution of every epoch up to the
\* one that ends as it was; the tally of the ended epoch reads the same after
\* the advance as the current tally read before it.
C15_AdvanceKeepsRecords ==
    [][\A s \in Users :
          (advanceEpoch(s) /\ call'.err = "none") =>
             \A h \in RumorHash :
                /\ rumorEpochData'[h][currentEpoch] = getRumorVotes(h)
                /\ \A e \in Epochs :
                      e <= currentEpoch =>
                         /\ rumorEpochData'[h][e] = rumorEpochData[h][e]
                         /\ hasVotedInEpoch'[h][e] = hasVotedInEpoch[h][e]
                         /\ voteChoice'[h][e] = voteChoice[h][e]
                         /\ nullifierUsed'[h][e] = nullifierUsed[h][e]
                         /\ resolution'[h][e] = resolution[h][e]]_vars

\* the epoch has just advanced over a rumor with two votes, a used nullifier
\* and a resolution in epoch 0
C15_Witness ==
    /\ call = [op |-> "advanceEpoch", err |-> "none"]
    /\ currentEpoch = 1
    /\ \E h \in RumorHash :
          /\ rumorEpochData[h][0].trueVoteCount + rumorEpochData[h][0].falseVoteCount = 2
          /\ resolution[h][0].resolved
          /\ \E n \in Nullifier : nullifierUsed[h][0][n]
          /\ \E a \in Users : hasVotedInEpoch[h][0][a]

\* C16: once currentEpoch is greater than e, no step of any operation
\* (castVote, castVoteWithNullifier, resolveRumor, claimReward, slash,
\* advanceEpoch, registration) changes a field of the tally of (rumor, e).
C16_PastTallyFrozen ==
    [][\A h \in RumorHash, e \in Epochs :
          e < currentEpoch => rumorEpochData'[h][e] = rumorEpochData[h][e]]_vars

\* a vote has just been counted in epoch 1 on a rumor that has votes in epoch 0
C16_Witness ==
    /\ call.op \in {"castVote", "castVoteWithNullifier"} /\ call.err = "none"
    /\ currentEpoch = 1
    /\ \E h \in RumorHash :
          /\ rumorEpochData[h][0].trueVoteCount + rumorEpochData[h][0].falseVoteCount > 0
          /\ rumorEpochData[h][1].trueVoteCount + rumorEpochData[h][1].falseVoteCount > 0

\* C17: right after a successful advanceEpoch the current tally of every
\* rumor is all zeros and hasVoted is false for every account, and an account
\* that voted on a rumor in the epoch that ended (and is still registered
\* with a positive score) is accepted by castVote on that rumor again.
C17_FreshEpoch ==
    [][\A s \in Users :
          (advanceEpoch(s) /\ call'.err = "none") =>
             \A h \in RumorHash :
                /\ getRumorVotes(h)' = EmptyEpochData
                /\ \A a \in Address : ~hasVoted(h, a)'
                /\ \A a \in Users :
                      (hasVoted(h, a) /\ isRegistered[a] /\ trustScore[a] > 0) =>
                         castVoteRevert(a, h)' = "none"]_vars

\* an account that voted on a rumor in epoch 0 has just voted on it again in
\* epoch 1
C17_Witness ==
    /\ call = [op |-> "castVote", err |-> "none"]
    /\ currentEpoch = 1
    /\ \E h \in RumorHash, a \in Users :
          hasVotedInEpoch[h][0][a] /\ hasVotedInEpoch[h][1][a]

\* C18: once resolveRumor has succeeded for (rumor, epoch), every further
\* resolveRumor on that key fails with AlreadyResolved, and no step of any
\* operation changes the resolved flag or the consensus stored for it.
C18_ResolveOnce ==
    [][/\ \A s \in Users, h \in RumorHash :
             (resolution[h][currentEpoch].resolved /\ resolveRumor(s, h)) =>
                call'.err = "AlreadyResolved"
       /\ \A h \in RumorHash, e \in Epochs :
             resolution[h][e].resolved => resolution'[h][e] = resolution[h][e]]_vars

\* a second resolveRumor on a resolved rumor has just been turned away
C18_Witness ==
    /\ call = [op |-> "resolveRumor", err |-> "AlreadyResolved"]
    /\ \E h \in RumorHash : resolution[h][currentEpoch].resolved

\* C19: a successful resolveRumor stores consensus = TRUE exactly when the
\* weighted true sum of the current epoch is strictly greater than the
\* weighted false sum; equal sums give consensus = FALSE.
C19_ConsensusStrict ==
    [][\A s \in Users, h \in RumorHash :
          (resolveRumor(s, h) /\ call'.err = "none") =>
             /\ resolution'[h][currentEpoch].resolved
             /\ resolution'[h][currentEpoch].consensus <=>
                    (getRumorVotes(h).weightedTrueVotes > getRumorVotes(h).weightedFalseVotes)
             /\ (getRumorVotes(h).weightedTrueVotes = getRumorVotes(h).weightedFalseVotes) =>
                    ~resolution'[h][currentEpoch].consensus]_vars

\* two accounts of equal weight voted opposite sides and the rumor has just
\* been resolved: the consensus is false
C19_Witness ==
    /\ call = [op |-> "resolveRumor", err |-> "none"]
    /\ \E h \in RumorHash :
          /\ getRumorVotes(h) = [weightedTrueVotes |-> 3, weightedFalseVotes |-> 3,
                                 trueVoteCount |-> 1, falseVoteCount |-> 1]
          /\ resolution[h][currentEpoch] = [resolved |-> TRUE, consensus |-> FALSE]

\* C20 as stated: the first successful claimReward of (rumor, epoch, account)
\* changes the account's score and writes the claim record, and every later
\* claim of the triple fails with AlreadyClaimed and leaves the scores as
\* they are.
C20_ClaimChangesOnce ==
    [][\A s \in Users, h \in RumorHash, e \in Epochs :
          claimReward(s, h, e) =>
             /\ call'.err = "none" =>
                   /\ ~hasClaimed[h][e][s] /\ hasClaimed'[h][e][s]
                   /\ trustScore'[s] # trustScore[s]
             /\ hasClaimed[h][e][s] =>
                   call'.err = "AlreadyClaimed" /\ UNCHANGED <<trustScore, hasClaimed>>]_vars

\* C20: the first successful claimReward of (rumor, epoch, account) writes the
\* claim record and applies the delta to the account's score (+REWARD_AMOUNT
\* capped at MAX_TRUST when its side is the consensus, -PENALTY_AMOUNT floored
\* at 0 otherwise, so a score already at the bound stays), and every later
\* claim of the triple fails with AlreadyClaimed and leaves the scores as
\* they are.
C20_ClaimOnce ==
    [][\A s \in Users, h \in RumorHash, e \in Epochs :
          claimReward(s, h, e) =>
             /\ call'.err = "none" =>
                   /\ ~hasClaimed[h][e][s] /\ hasClaimed'[h][e][s]
                   /\ trustScore'[s] =
                         IF voteChoice[h][e][s] = resolution[h][e].consensus
                         THEN IF trustScore[s] + REWARD_AMOUNT > MAX_TRUST
                              THEN MAX_TRUST ELSE trustScore[s] + REWARD_AMOUNT
                         ELSE IF trustScore[s] < PENALTY_AMOUNT
                              THEN 0 ELSE trustScore[s] - PENALTY_AMOUNT
             /\ hasClaimed[h][e][s] =>
                   call'.err = "AlreadyClaimed" /\ UNCHANGED <<trustScore, hasClaimed>>]_vars

\* a second claim of a triple has just been turned away, after the first
\* moved the account's score off its initial value
C20_Witness ==
    /\ call = [op |-> "claimReward", err |-> "AlreadyClaimed"]
    /\ \E h \in RumorHash, e \in Epochs, a \in Users :
          hasClaimed[h][e][a] /\ trustScore[a] \in {INITIAL_TRUST + REWARD_AMOUNT,
                                                    INITIAL_TRUST - PENALTY_AMOUNT}

\* C21: a successful claimReward sets the claimant's score to
\* min(100, score + REWARD_AMOUNT) when its recorded side is the consensus
\* and to max(0, score - PENALTY_AMOUNT) otherwise; claimReward fails with
\* NotResolved when (rumor, epoch) is unresolved, and with DidNotVote when it
\* is resolved and the claimant has no vote receipt for it.
C21_ClaimDelta ==
    [][\A s \in Users, h \in RumorHash, e \in Epochs :
          claimReward(s, h, e) =>
             /\ ~resolution[h][e].resolved =>
                   call'.err = "NotResolved" /\ UNCHANGED <<trustScore, hasClaimed>>
             /\ (resolution[h][e].resolved /\ ~hasVotedInEpoch[h][e][s]) =>
                   call'.err = "DidNotVote" /\ UNCHANGED <<trustScore, hasClaimed>>
             /\ call'.err = "none" =>
                   trustScore'[s] =
                      IF voteChoice[h][e][s] = resolution[h][e].consensus
                      THEN Min(100, trustScore[s] + REWARD_AMOUNT)
                      ELSE Max(0, trustScore[s] - PENALTY_AMOUNT)]_vars

\* a winner has claimed and stands at the cap of 100, and a loser that was
\* slashed to 0 has claimed and stands at the floor of 0
C21_Witness ==
    /\ call = [op |-> "claimReward", err |-> "none"]
    /\ \E h \in RumorHash, e \in Epochs, a \in Users, b \in Users :
          /\ hasClaimed[h][e][a] /\ voteChoice[h][e][a] = resolution[h][e].consensus
          /\ trustScore[a] = MAX_TRUST
          /\ hasClaimed[h][e][b] /\ voteChoice[h][e][b] # resolution[h][e].consensus
          /\ trustScore[b] = 0

\* C22: when a penalty claim takes an invited account's score from above 0
\* to exactly 0 and its inviter's score is at least INVITE_STAKE, the same
\* step takes exactly INVITE_STAKE from the inviter; a claim by an invited
\* account whose score is already 0 takes nothing from the inviter.
C22_CascadeOncePerCrossing ==
    [][\A s \in Users, h \in RumorHash, e \in Epochs :
          (claimReward(s, h, e) /\ call'.err = "none" /\ inviter[s] # 0) =>
             LET i == inviter[s]
             IN  /\ (trustScore[s] > 0 /\ trustScore'[s] = 0 /\ trustScore[i] >= INVITE_STAKE) =>
                       trustScore'[i] = trustScore[i] - INVITE_STAKE
                 /\ trustScore[s] = 0 => trustScore'[i] = trustScore[i]]_vars

\* an invited account has just claimed a penalty that took it to 0, and its
\* inviter, who stood at 5, has lost the stake
C22_Witness ==
    /\ call = [op |-> "claimReward", err |-> "none"]
    /\ \E h \in RumorHash, e \in Epochs, a \in Users :
          /\ inviter[a] # 0
          /\ hasClaimed[h][e][a] /\ voteChoice[h][e][a] # resolution[h][e].consensus
          /\ trustScore[a] = 0
          /\ trustScore[inviter[a]] = 0
          /\ ~hasClaimed[h][e][inviter[a]]

\* C23: a successful slash(user, amount) takes exactly amount from the user's
\* score; the user's inviter, if it has one, loses exactly INVITE_STAKE when
\* its score is at least INVITE_STAKE and nothing otherwise; the score of
\* every other account, the inviter's inviter included, is unchanged.
C23_SlashEffect ==
    [][\A s \in ChainUsers, u \in ChainUsers, amount \in ChainSlashAmount :
          (slash(s, u, amount) /\ call'.err = "none") =>
             LET i == inviter[u]
             IN  /\ trustScore'[u] = trustScore[u] - amount
                 /\ (i # 0 /\ trustScore[i] >= INVITE_STAKE) =>
                       trustScore'[i] = trustScore[i] - INVITE_STAKE
                 /\ (i # 0 /\ trustScore[i] < INVITE_STAKE) =>
                       trustScore'[i] = trustScore[i]
                 /\ \A a \in Address \ {u, i} : trustScore'[a] = trustScore[a]]_vars

\* the deployer invited account 2, which invited account 3; account 3 has
\* just been slashed by 3: it stands at 7, its inviter at 5, the deployer at 10
C23_Witness ==
    /\ call = [op |-> "slash", err |-> "none"]
    /\ inviter[3] = 2 /\ inviter[2] = 1
    /\ trustScore[3] = 7 /\ trustScore[2] = 5 /\ trustScore[1] = 10

\* C24 as stated: slash(user, amount) with amount above the user's score
\* fails with TrustScoreOutOfBounds and slash of an unregistered user fails
\* with NotRegistered, whoever calls; no score changes.
C24_SlashRejectedAnyCaller ==
    [][\A s \in ChainUsers, u \in ChainUsers, amount \in ChainSlashAmount :
          slash(s, u, amount) =>
             /\ ~isRegistered[u] =>
                   call'.err = "NotRegistered" /\ UNCHANGED trustScore
             /\ (isRegistered[u] /\ amount > trustScore[u]) =>
                   call'.err = "TrustScoreOutOfBounds" /\ UNCHANGED trustScore]_vars

\* C24: slash(user, amount) called by the owner fails with NotRegistered
\* when the user is unregistered and with TrustScoreOutOfBounds when the
\* user is registered and amount is above its score; called by any other
\* account it fails with OnlyOwner; no score changes in any of these cases.
C24_SlashRejected ==
    [][\A s \in ChainUsers, u \in ChainUsers, amount \in ChainSlashAmount :
          slash(s, u, amount) =>
             /\ s # owner =>
                   call'.err = "OnlyOwner" /\ UNCHANGED trustScore
             /\ (s = owner /\ ~isRegistered[u]) =>
                   call'.err = "NotRegistered" /\ UNCHANGED trustScore
             /\ (s = owner /\ isRegistered[u] /\ amount > trustScore[u]) =>
                   call'.err = "TrustScoreOutOfBounds" /\ UNCHANGED trustScore]_vars

\* a slash of an invited account by more than its score has just been
\* turned away
C24_Witness ==
    /\ call = [op |-> "slash", err |-> "TrustScoreOutOfBounds"]
    /\ \E u \in ChainUsers :
          isRegistered[u] /\ inviter[u] # 0 /\ trustScore[u] \in 1..9

C27_ScoreFrame ==
    [][call'.op \in {"bootstrapRegister", "inviteUser", "castVote", "castVoteWithNullifier",
                     "registerRumor", "advanceEpoch", "resolveRumor"} =>
          \A a \in Address : isRegistered[a] => trustScore'[a] = trustScore[a]]_vars

\* the deployer has just invited an account and still stands at 10
C27_Witness ==
    /\ call = [op |-> "inviteUser", err |-> "none"]
    /\ \E a \in Users : inviter[a] = Deployer /\ trustScore[a] = INITIAL_TRUST
    /\ trustScore[Deployer] = INITIAL_TRUST

\* C28: getRumorTrustScore(rumor) returns 50 when the current tally of the
\* rumor has zero total weight and otherwise the floor of
\* 100 * weightedTrue / (weightedTrue + weightedFalse); the result is in
\* 0..100 and is 100 when all the weight is on true.
C28_RumorTrustScore ==
    call.op = "getRumorTrustScore" =>
       \A h \in RumorHash :
          LET t == getRumorVotes(h).weightedTrueVotes
              f == getRumorVotes(h).weightedFalseVotes
          IN  /\ weightOut \in 0..100
              /\ (t + f = 0) => weightOut = 50
              /\ (t + f > 0) => /\ weightOut * (t + f) <= 100 * t
                                /\ 100 * t < (weightOut + 1) * (t + f)
              /\ (t > 0 /\ f = 0) => weightOut = 100

\* the score of a tally of weight 1 against 2 has just been read: 33
C28_Witness ==
    /\ call.op = "getRumorTrustScore"
    /\ \E h \in RumorHash :
          /\ getRumorVotes(h).weightedTrueVotes = 1
          /\ getRumorVotes(h).weightedFalseVotes = 2
          /\ weightOut = 33

\* C29: registerRumor(hash, content) by a registered caller on a hash that
\* is not registered stores the content, the caller as creator and the
\* current epoch and adds exactly 1 to getRumorCount; on a hash that is
\* registered it fails with RumorAlreadyExists and leaves the stored rumor
\* and the count as they were; getRumorCount is always the number of
\* registered hashes and the enumeration lists each of them once.
C29_RumorRegistry ==
    /\ [](/\ getRumorCount = Cardinality({h \in RegistryRumorHash : rumors[h].exists})
          /\ {getRumorHashByIndex(i) : i \in 0..(getRumorCount - 1)} =
                {h \in RegistryRumorHash : rumors[h].exists}
          /\ \A i, j \in 0..(getRumorCount - 1) :
                getRumorHashByIndex(i) = getRumorHashByIndex(j) => i = j)
    /\ [][\A s \in Users, h \in RegistryRumorHash, c \in RumorContent :
             (registerRumor(s, h, c) /\ isRegistered[s]) =>
                IF rumors[h].exists
                THEN /\ call'.err = "RumorAlreadyExists"
                     /\ rumors' = rumors
                     /\ getRumorCount' = getRumorCount
                ELSE /\ call'.err = "none"
                     /\ rumors'[h] = [content |-> c, createdEpoch |-> currentEpoch,
                                      creator |-> s, exists |-> TRUE]
                     /\ \A g \in RegistryRumorHash \ {h} : rumors'[g] = rumors[g]
                     /\ getRumorCount' = getRumorCount + 1]_vars

\* two rumors are registered, by different accounts in different epochs, and
\* a repeated registration has just been turned away
C29_Witness ==
    /\ call = [op |-> "registerRumor", err |-> "RumorAlreadyExists"]
    /\ getRumorCount = 2
    /\ rumors[1].exists /\ rumors[2].exists
    /\ rumors[1].creator # rumors[2].creator
    /\ rumors[1].createdEpoch # rumors[2].createdEpoch

\* the value returned is the integer square root of the argument
SqrtReturned ==
    sqrtCall.pc = "done" =>
       /\ ~BigLess(sqrtCall.x, BigMul(sqrtCall.y, sqrtCall.y))
       /\ BigLess(sqrtCall.x, BigMul(BigAdd(sqrtCall.y, <<1>>), BigAdd(sqrtCall.y, <<1>>)))

\* every pass of the loop either lowers y or is the last one
SqrtDescends ==
    [][sqrtCall.pc = "loop" =>
          \/ sqrtCall'.pc = "loop" /\ BigLess(sqrtCall'.y, sqrtCall.y)
          \/ sqrtCall'.pc = "done" /\ sqrtCall'.y = sqrtCall.y
                /\ ~BigLess(sqrtCall.z, sqrtCall.y)]_vars

C31_EpochCounter ==
    /\ currentEpoch = 0
    /\ [][/\ IF \E s \in Users : advanceEpoch(s) /\ call'.err = "none"
             THEN currentEpoch' = currentEpoch + 1
             ELSE currentEpoch' = currentEpoch
          /\ currentEpoch' >= currentEpoch]_vars

\* a reward has been claimed after the counter moved to 1, and the counter is
\* still 1
C31_Witness ==
    /\ currentEpoch = 1
    /\ call = [op |-> "claimReward", err |-> "none"]
    /\ \E h \in RumorHash, a \in Users : hasClaimed[h][0][a]

\* C32: a step takes score from an account only when the account is the one
\* slashed (by a positive amount) or when the score of one of its direct
\* invitees goes down in the same step; in particular a slash that leaves
\* the invitee's score as it was (amount 0) leaves the inviter's score as it
\* was.
C32_CascadeOnlyOnLoss ==
    [][\A i \in ChainUsers :
          trustScore'[i] < trustScore[i] =>
             \/ \E s \in ChainUsers, amount \in ChainSlashAmount \ {0} : slash(s, i, amount)
             \/ \E u \in ChainUsers : inviter[u] = i /\ trustScore'[u] < trustScore[u]]_vars

\* the accounts invited by a
InviteesOf(a) == {u \in Address \ {0} : inviter[u] = a}

\* C33: over any sequence of operations an inviter loses at most INVITE_STAKE
\* on account of one invitee.  The deployer starts at INITIAL_TRUST and in
\* these behaviours is never slashed itself, so its score stays at or above
\* INITIAL_TRUST less one stake per account it has invited.
C33_StakeTakenOnce ==
    trustScore[Deployer] >= INITIAL_TRUST - INVITE_STAKE * Cardinality(InviteesOf(Deployer))

\* following the inviter back-references from a ends at "none" (address(0))
\* within n hops
RECURSIVE InviterChainEnds(_, _)
InviterChainEnds(a, n) ==
    IF a = 0 THEN TRUE
    ELSE IF n = 0 THEN FALSE
    ELSE InviterChainEnds(inviter[a], n - 1)

\* C34: in every reachable state an account with a recorded inviter is
\* registered, its inviter is another account and is registered, an
\* unregistered account has no inviter, and the back-references lead to
\* "none" without a cycle; an inviter is recorded only for an account that is
\* being registered, and it is an account that was registered before that
\* step.
C34_InviterWellFormed ==
    /\ [](\A u \in Address :
            /\ inviter[u] # 0 =>
                  isRegistered[u] /\ isRegistered[inviter[u]] /\ inviter[u] # u
            /\ ~isRegistered[u] => inviter[u] = 0
            /\ InviterChainEnds(inviter[u], NumChainUsers + 1))
    /\ [][\A u \in Address :
            inviter'[u] # inviter[u] =>
               /\ ~isRegistered[u] /\ isRegistered'[u]
               /\ isRegistered[inviter'[u]]]_vars

\* a chain of two invitations: the deployer invited an account, which invited
\* a third
C34_Witness ==
    \E u \in ChainUsers, v \in ChainUsers :
       /\ inviter[u] = Deployer
       /\ inviter[v] = u
       /\ call = [op |-> "inviteUser", err |-> "none"]

\* the raw count of a tally: the votes of both sides
VoteCount(data) == data.trueVoteCount + data.falseVoteCount

\* a vote on rumor h is accepted in this step
VoteAccepted(h) ==
    /\ call'.err = "none"
    /\ \/ \E s \in Users, isTrue \in BOOLEAN : castVote(s, h, isTrue)
       \/ \E s \in Users, isTrue \in BOOLEAN, n \in Nullifier :
             castVoteWithNullifier(s, h, isTrue, n)

\* C35: for every (rumor, epoch) and each side the weighted sum is at least
\* the raw count and at most 10 times the raw count (so it is 0 exactly when
\* the count is 0); every tally starts empty, an accepted vote raises the
\* raw count of the rumor in the current epoch by one and no other step and
\* no other tally's count moves, so the two counts add up to the number of
\* votes accepted; no sum and no count ever goes down.
C35_TallyBounds ==
    /\ \A h \in RumorHash, e \in Epochs : rumorEpochData[h][e] = EmptyEpochData
    /\ [](\A h \in RumorHash, e \in Epochs :
            LET d == rumorEpochData[h][e]
            IN  /\ d.trueVoteCount <= d.weightedTrueVotes
                /\ d.weightedTrueVotes <= 10 * d.trueVoteCount
                /\ d.falseVoteCount <= d.weightedFalseVotes
                /\ d.weightedFalseVotes <= 10 * d.falseVoteCount)
    /\ [][\A h \in RumorHash, e \in Epochs :
            LET d == rumorEpochData[h][e]
                n == rumorEpochData'[h][e]
            IN  /\ n.trueVoteCount >= d.trueVoteCount
                /\ n.falseVoteCount >= d.falseVoteCount
                /\ n.weightedTrueVotes >= d.weightedTrueVotes
                /\ n.weightedFalseVotes >= d.weightedFalseVotes
                /\ VoteCount(n) = VoteCount(d) +
                      (IF e = currentEpoch /\ VoteAccepted(h) THEN 1 ELSE 0)]_vars

\* a side of one tally holds one vote of weight 10 and nothing else, a side
\* of another holds two votes of weight 1 and 3
C35_Witness ==
    \E h \in RumorHash :
       /\ rumorEpochData[h][0].trueVoteCount = 1
       /\ rumorEpochData[h][0].weightedTrueVotes = 10
       /\ rumorEpochData[h][0].falseVoteCount = 0
       /\ rumorEpochData[h][1].falseVoteCount = 2
       /\ rumorEpochData[h][1].weightedFalseVotes = 4

\* C36: the weight of every score from 1 to 100 is at least 1 and at least
\* the weight of the score below it, and no vote of either kind is ever
\* turned away for a zero weight: a registered caller with a positive score
\* fails only on its receipt or its nullifier.
C36_WeightPositive ==
    /\ [](weightOut # -1 /\ scoreIn >= 1 =>
            /\ weightOut >= 1
            /\ weightOut >= VoteWeightTable[scoreIn - 1])
    /\ [](call.err # "Zero vote weight")
    /\ [][\A s \in Users, h \in RumorHash :
            (castVote(s, h, TRUE) /\ isRegistered[s] /\ trustScore[s] > 0
                /\ ~hasVotedInEpoch[h][currentEpoch][s]) => call'.err = "none"]_vars
    /\ [][\A s \in Users, h \in RumorHash, n \in Nullifier :
            (castVoteWithNullifier(s, h, FALSE, n) /\ isRegistered[s] /\ trustScore[s] > 0
                /\ ~nullifierUsed[h][currentEpoch][n]) => call'.err = "none"]_vars

\* the deployer stands at 1, its weight has been read as 1 and its vote has
\* been accepted with that weight
C36_Witness ==
    /\ trustScore[Deployer] = 1
    /\ weightOut = 1
    /\ call = [op |-> "castVote", err |-> "none"]
    /\ \E h \in RumorHash :
          rumorEpochData[h][0].weightedTrueVotes + rumorEpochData[h][0].weightedFalseVotes = 1

\* C37 as stated: every registered account has a non-zero commitment;
\* bootstrapRegister and inviteUser with an empty commitment fail with
\* InvalidCommitment and register nobody; no step clears a stored commitment.
C37_CommitmentInvalid ==
    /\ [](\A a \in Address : isRegistered[a] => userCommitment[a] # 0)
    /\ [][/\ \A u \in Users : bootstrapRegister(u, 0) =>
                call'.err = "InvalidCommitment" /\ UNCHANGED identityVars
          /\ \A u \in Users, i \in Users : inviteUser(u, i, 0) =>
                call'.err = "InvalidCommitment" /\ UNCHANGED identityVars
          /\ \A a \in Address : userCommitment[a] # 0 => userCommitment'[a] # 0]_vars

\* C37: every registered account has a non-zero commitment;
\* bootstrapRegister and inviteUser with an empty commitment always fail and
\* register nobody, with InvalidCommitment when the checks before it pass
\* (the caller not registered and a slot free for bootstrapRegister; the
\* caller registered with a score of at least INVITE_STAKE and the invitee
\* another, unregistered account for inviteUser) and with the error of the
\* first failing check otherwise; no step changes a stored commitment.
C37_CommitmentKept ==
    /\ [](\A a \in Address : isRegistered[a] => userCommitment[a] # 0)
    /\ [][/\ \A u \in Users : bootstrapRegister(u, 0) =>
                /\ call'.err = IF isRegistered[u] THEN "AlreadyRegistered"
                               ELSE IF bootstrapUsed >= BOOTSTRAP_SLOTS THEN "BootstrapPeriodEnded"
                               ELSE "InvalidCommitment"
                /\ UNCHANGED identityVars
          /\ \A u \in Users, i \in Users : inviteUser(u, i, 0) =>
                /\ call'.err = IF ~isRegistered[u] THEN "NotRegistered"
                               ELSE IF isRegistered[i] THEN "AlreadyRegistered"
                               ELSE IF trustScore[u] < INVITE_STAKE
                                    THEN "InsufficientTrustToInvite"
                               ELSE "InvalidCommitment"
                /\ UNCHANGED identityVars
          /\ \A a \in Address : userCommitment[a] # 0 =>
                userCommitment'[a] = userCommitment[a]]_vars

\* an invitation with an empty commitment has just been turned away and the
\* invitee is still unregistered
C37_Witness ==
    /\ call = [op |-> "inviteUser", err |-> "InvalidCommitment"]
    /\ \E a \in Users : ~isRegistered[a] /\ userCommitment[a] = 0

\* a connection state carries an error exactly when its status is 'error'
ErrorIffStatus(state) == (state.error # null) <=> (state.status = "error")

\* C38: under every interleaving of health checks, put acknowledgements,
\* peer-count timers, reconnect calls and (un)subscriptions, connectionState
\* and the state every listener was handed last carry a non-null error
\* exactly when their status is 'error'; and a reconnect leaves
\* connectionState, and what every subscribed listener was handed, at
\* status 'connecting' with error null while the put it started is still
\* unacknowledged.
C38_ErrorIffStatus ==
    /\ [](/\ ErrorIffStatus(monitor.connectionState)
          /\ \A l \in Listeners : ErrorIffStatus(monitor.received[l]))
    /\ [][reconnect =>
            /\ monitor'.connectionState.status = "connecting"
            /\ monitor'.connectionState.error = null
            /\ \A l \in monitor.connectionCallbacks :
                  monitor'.received[l] = monitor'.connectionState
            /\ [id |-> monitor.checks + 1, by |-> "reconnect"] \in monitor'.inFlight]_vars

\* a check failed, the page called reconnect, and the put reconnect started
\* is in flight while a subscribed listener shows 'connecting' without error
C38_Witness ==
    /\ monitor.connectionState.status = "connecting"
    /\ monitor.connectionState.error = null
    /\ monitor.connectionState.lastSync = null
    /\ monitor.checks = 2
    /\ monitor.inFlight = {[id |-> 2, by |-> "reconnect"]}
    /\ \E l \in monitor.connectionCallbacks :
          monitor.received[l] = monitor.connectionState
====
